---- MODULE Spec2Model ----
(***************************************************************************)
(* TransactionLogger (src/output-example/transaction_logging.py) as a      *)
(* state machine: logger instances, the process-wide registry of named     *)
(* loggers of the logging module with their handler lists, the log files   *)
(* and the standard error stream.  One action per public method; each      *)
(* action is the whole call (a log() that reaches the buffer threshold     *)
(* contains its flush, a query() contains its flush and its read).         *)
(* In Spec the calls are made one after the other by a single thread and  *)
(* max_bytes keeps its default of 10 MB, so no rollover is reached; the    *)
(* specifications further down add small max_bytes, the removal of the     *)
(* log file, failing sinks and calls made by several threads.              *)
(***************************************************************************)
EXTENDS Naturals, Sequences, FiniteSets

VARIABLES
    inst,      \* instance -> its fields (log_file, fmt, buffer_size, _buffer, name, _handler)
    loggers,   \* logging.getLogger registry: name -> [level, handlers]
    files,     \* absolute path -> the lines of the active file
    stderr,    \* lines written to sys.stderr by stream handlers and logging.lastResort
    logged,    \* history: the payload of every log() call that passed validation
    last,      \* history: the most recent call, the exception it raised, the value it returned
    disk,      \* the directory: absent paths, unlinked open streams, backups, the export output
    pc,        \* thread -> the call it is in and its position in it
    lock       \* instance -> the thread holding self._lock, None when it is free

vars == <<inst, loggers, files, stderr, logged, last, disk, pc, lock>>

(***************************************************************************)
(* Bounds of the model.                                                    *)
(***************************************************************************)
MaxLogs == 3
MaxBuf == 3

(***************************************************************************)
(* Defaults of __init__ (lines 55-56) and the rotation parameters tried.   *)
(***************************************************************************)
DefaultMaxBytes == 10485760
DefaultBackupCount == 5

\* datetime.utcnow().microsecond as log() reads it: isoformat() leaves the
\* fraction out of the timestamp when it is 0
MicrosecondArgs == {0, 5}

MaxBytesArgs == {150, 250, DefaultMaxBytes}
BackupCountArgs == {0, 1, 2}

(***************************************************************************)
(* Inputs.                                                                 *)
(***************************************************************************)
Insts == {"A", "B"}

None == "None"

LogFileArgs == {"t.log", "/cwd/t.log", "/cwd/u.log"}

FmtArgs == {"json", "text", "xml"}

LevelArgs == {"INFO", "error", "bogus"}

LoggerNameArgs == {None, "shared"}

\* Python values of a payload: a tag and the textual form of the value.
PyInt == [t |-> "int", v |-> "7"]
PyStr == [t |-> "str", v |-> "ok"]
PyTuple == [t |-> "tuple", v |-> "1,2"]
PySet == [t |-> "set", v |-> "{1}"]

\* Payloads: dicts with string keys (a format-safe one, one whose value json
\* encodes to another type, one whose value json cannot encode) and a non-dict.
TxnSafe == [id |-> PyInt, status |-> PyStr]
TxnTuple == [id |-> PyTuple]
TxnSet == [id |-> PySet]
NotADict == [str |-> "not a dict"]

Dicts == {TxnSafe, TxnTuple, TxnSet}

\* Dicts with a key that is not a string: {1: "ok"} and {(1, 2): "ok"}.  The
\* field name stands for the key; KeyType gives the Python type of the key.
TxnIntKey == [int_1 |-> PyStr]
TxnTupleKey == [tuple_1_2 |-> PyStr]

KeyedDicts == {TxnIntKey, TxnTupleKey}

\* A dict whose value is a string that float() converts: {"id": "5"}.
PyNumStr == [t |-> "str", v |-> "5"]
TxnNumStr == [id |-> PyNumStr]

KeyType(k) ==
    CASE k = "int_1" -> "int"
      [] k = "tuple_1_2" -> "tuple"
      [] OTHER -> "str"

\* isinstance(transaction, dict)
IsDict(transaction) == transaction \in Dicts \cup KeyedDicts \cup {TxnNumStr}

(***************************************************************************)
(* Library functions the class uses.                                       *)
(***************************************************************************)
\* os.path.abspath with the process working directory /cwd
abspath(p) == IF p = "t.log" THEN "/cwd/t.log" ELSE p

AbsPaths == {abspath(p) : p \in LogFileArgs}

\* str.upper
upper(s) ==
    CASE s = "info" -> "INFO"
      [] s = "error" -> "ERROR"
      [] s = "bogus" -> "BOGUS"
      [] OTHER -> s

\* the integer attributes of the logging module that name a level
LevelNames == {"DEBUG", "INFO", "WARNING", "ERROR"}

LevelNo(name) ==
    CASE name = "DEBUG" -> 10
      [] name = "INFO" -> 20
      [] name = "WARNING" -> 30
      [] name = "ERROR" -> 40

\* getattr(logging, name, default)
getattr_logging(name, default) == IF name \in LevelNames THEN LevelNo(name) ELSE default

\* f"TransactionLogger-{self._id}": one fresh name per instance
UniqueName(i) == IF i = "A" THEN "TransactionLogger-A" ELSE "TransactionLogger-B"

LoggerNames == {"shared"} \cup {UniqueName(i) : i \in Insts}

\* json.dumps(o) succeeds
Encodable(o) == o.t \in {"int", "str", "tuple", "list"}

\* json.dumps(o): the JSON text of an encodable value
dumps(o) ==
    CASE o.t = "int" -> [j |-> "number", v |-> o.v]
      [] o.t = "str" -> [j |-> "string", v |-> o.v]
      [] o.t \in {"tuple", "list"} -> [j |-> "array", v |-> o.v]

\* json.dumps of a dict key: str, int, float, bool and None keys become JSON
\* strings, any other key raises TypeError
KeyEncodable(k) == KeyType(k) \in {"str", "int"}

dumpsKey(k) == IF k = "int_1" THEN "1" ELSE k

\* mutant of loads: a JSON number is read back as a string
loads_NumberAsString(x) ==
    CASE x.j = "number" -> [t |-> "str", v |-> x.v]
      [] x.j = "string" -> [t |-> "str", v |-> x.v]
      [] x.j = "array" -> [t |-> "list", v |-> x.v]

\* json.loads of one JSON value
loads(x) ==
    CASE x.j = "number" -> [t |-> "int", v |-> x.v]
      [] x.j = "string" -> [t |-> "str", v |-> x.v]
      [] x.j = "array" -> [t |-> "list", v |-> x.v]

\* str(o)
str(o) == [t |-> "str", v |-> o.v]

(***************************************************************************)
(* TransactionLogger._format_entry                                         *)
(***************************************************************************)
_safe(o) == IF Encodable(o) THEN o ELSE str(o)

\* line 195: json.dumps(safe_entry) raises TypeError on a key it cannot encode
FormatRaises(fmt, entry) ==
    fmt = "json" /\ \E k \in DOMAIN entry.transaction : ~KeyEncodable(k)

\* the line returned when _format_entry does not raise
_format_entry(fmt, entry) ==
    IF fmt = "json"
    THEN [f |-> "json", timestamp |-> entry.timestamp, us |-> entry.us,
          level |-> entry.level,
          transaction |->
              [j \in {dumpsKey(k) : k \in DOMAIN entry.transaction} |->
                  dumps(_safe(entry.transaction[
                      CHOOSE k \in DOMAIN entry.transaction : dumpsKey(k) = j]))]]
    ELSE [f |-> "text", timestamp |-> entry.timestamp, us |-> entry.us,
          level |-> entry.level, repr |-> entry.transaction]

\* len(s) of the strings that occur in a line
len(s) ==
    CASE s \in {"1", "5", "7"} -> 1
      [] s \in {"id", "ok"} -> 2
      [] s \in {"1,2", "{1}"} -> 3
      [] s = "INFO" -> 4
      [] s \in {"DEBUG", "ERROR", "BOGUS"} -> 5
      [] s = "status" -> 6
      [] s = "WARNING" -> 7

\* the length of the timestamp: 2026-01-01T00:00:03Z or ...:03.000005Z
TsLen(us) == IF us = 0 THEN 20 ELSE 27

\* the length of the JSON text of a value, separators=(",", ":")
JsonLen(x) ==
    CASE x.j = "number" -> len(x.v)
      [] x.j = "string" -> len(x.v) + 2
      [] x.j = "array" -> len(x.v) + 2

\* the length of repr(o): 7, 'ok', (1, 2), {1}
ReprLen(o) ==
    CASE o.t = "int" -> len(o.v)
      [] o.t = "str" -> len(o.v) + 2
      [] o.t \in {"tuple", "list"} -> len(o.v) + 3
      [] o.t = "set" -> len(o.v)

\* the length of repr(key): 'id', 1, (1, 2)
ReprKeyLen(k) ==
    CASE KeyType(k) = "str" -> len(k) + 2
      [] KeyType(k) = "int" -> 1
      [] KeyType(k) = "tuple" -> 6

\* the length of the text of a dict: the braces, the items and what joins
\* them ("," in json, ", " in repr)
RECURSIVE ItemsLen(_, _, _)
ItemsLen(f, d, keys) ==
    IF keys = {} THEN 0
    ELSE LET k == CHOOSE x \in keys : TRUE
         IN (IF f = "json" THEN len(k) + 3 + JsonLen(d[k])
             ELSE ReprKeyLen(k) + 2 + ReprLen(d[k]))
            + ItemsLen(f, d, keys \ {k})

DictLen(f, d) ==
    LET n == Cardinality(DOMAIN d)
        joins == IF n = 0 THEN 0 ELSE (n - 1) * (IF f = "json" THEN 1 ELSE 2)
    IN 2 + ItemsLen(f, d, DOMAIN d) + joins

\* len(msg) of RotatingFileHandler.shouldRollover: the formatted line of
\* lines 195 and 198 and the newline the handler adds
LineLen(line) ==
    IF line.f = "json"
    THEN 14 + TsLen(line.us) + 11 + len(line.level) + 16 + DictLen("json", line.transaction) + 2
    ELSE 1 + TsLen(line.us) + 2 + len(line.level) + 2 + DictLen("text", line.repr) + 1

\* the size of a file that holds the lines
RECURSIVE Size(_)
Size(lines) == IF lines = <<>> THEN 0 ELSE LineLen(Head(lines)) + Size(Tail(lines))

(***************************************************************************)
(* logging: Logger.log, Logger.callHandlers, Handler.handle                *)
(***************************************************************************)
\* Logger.getEffectiveLevel: a logger at NOTSET takes the root logger's WARNING
EffectiveLevel(lg) == IF lg.level = 0 THEN LevelNo("WARNING") ELSE lg.level

\* The handler objects.  faulty: the device under the handler has started to
\* fail, so that its write, flush and close raise OSError.
RotatingFileHandler(path, maxBytes, backupCount, i) ==
    [kind |-> "file", path |-> path, level |-> 0, id |-> i,
     maxBytes |-> maxBytes, backupCount |-> backupCount, faulty |-> FALSE]

StreamHandler(level, i) ==
    [kind |-> "console", path |-> "<stderr>", level |-> level, id |-> i,
     maxBytes |-> 0, backupCount |-> 0, faulty |-> FALSE]

\* A file of the directory that is not the active file of a path.
NoFile == [exists |-> FALSE, lines |-> <<>>]

NoExport == [fmt |-> None]

\* open(path, "a"): the file exists afterwards
Opened(d, p) == [d EXCEPT !.absent = @ \ {p}]

\* Handler.close of the handlers hs: a stream on an unlinked file is released
Closed(d, hs) ==
    [d EXCEPT !.unlinked = [i \in DOMAIN @ |->
        IF \E k \in 1..Len(hs) : hs[k].kind = "file" /\ hs[k].id = i
        THEN [is |-> FALSE, lines |-> <<>>] ELSE @[i]]]

\* mutant of doRollover: the backup that moves past backupCount is kept
doRollover_NoDiscard(h, o) ==
    LET p == h.path
        base_exists == p \notin o.disk.absent
        old == o.disk.backups[p]
        bc == h.backupCount
        shifted == [k \in DOMAIN old |->
            IF k = 1 THEN (IF base_exists THEN [exists |-> TRUE, lines |-> o.files[p]] ELSE NoFile)
            ELSE IF k <= bc + 1
                 THEN (IF old[k - 1].exists THEN old[k - 1]
                       ELSE IF k = bc + 1 THEN old[k] ELSE NoFile)
                 ELSE old[k]]
    IN [o EXCEPT !.files[p] = IF bc > 0 THEN <<>> ELSE @,
                 !.disk.backups[p] = IF bc > 0 THEN shifted ELSE @,
                 !.disk.absent = @ \ {p},
                 !.disk.unlinked[h.id] = [is |-> FALSE, lines |-> <<>>]]

\* RotatingFileHandler.doRollover: the stream is closed, with backupCount > 0
\* the backups .1 .. .(backupCount-1) move up by one and the active file,
\* when it exists, becomes .1; the active file is then opened again in
\* append mode (with backupCount = 0 it is the same file, content kept)
doRollover(h, o) ==
    LET p == h.path
        base_exists == p \notin o.disk.absent
        old == o.disk.backups[p]
        bc == h.backupCount
        shifted == [k \in DOMAIN old |->
            IF k = 1 THEN (IF base_exists THEN [exists |-> TRUE, lines |-> o.files[p]] ELSE NoFile)
            ELSE IF k <= bc
                 THEN (IF old[k - 1].exists THEN old[k - 1]
                       ELSE IF k = bc THEN old[k] ELSE NoFile)
                 ELSE old[k]]
    IN [o EXCEPT !.files[p] = IF bc > 0 THEN <<>> ELSE @,
                 !.disk.backups[p] = IF bc > 0 THEN shifted ELSE @,
                 !.disk.absent = @ \ {p},
                 !.disk.unlinked[h.id] = [is |-> FALSE, lines |-> <<>>]]

\* RotatingFileHandler.shouldRollover: stream.tell() + len(msg) >= maxBytes
shouldRollover(h, text, o) ==
    LET u == o.disk.unlinked[h.id]
        tell == Size(IF u.is THEN u.lines ELSE o.files[h.path])
    IN h.maxBytes > 0 /\ tell + LineLen(text) >= h.maxBytes

\* Handler.handleError: the traceback of a failed emit goes to sys.stderr
LoggingError(text) ==
    [f |-> "logging error", timestamp |-> text.timestamp, level |-> text.level]

\* StreamHandler.emit / RotatingFileHandler.emit of one record on the outputs o
HandlerEmit(h, text, o) ==
    IF h.kind = "file"
    THEN IF h.faulty THEN [o EXCEPT !.stderr = Append(@, LoggingError(text))]
         ELSE LET o1 == IF shouldRollover(h, text, o) THEN doRollover(h, o) ELSE o
              IN IF o1.disk.unlinked[h.id].is
                 THEN [o1 EXCEPT !.disk.unlinked[h.id].lines = Append(@, text)]
                 ELSE [o1 EXCEPT !.files[h.path] = Append(@, text)]
    ELSE IF h.faulty THEN o ELSE [o EXCEPT !.stderr = Append(@, text)]

RECURSIVE callHandlers(_, _, _, _)
callHandlers(hs, lvl, text, o) ==
    IF hs = <<>> THEN o
    ELSE callHandlers(Tail(hs), lvl, text,
                      IF lvl >= Head(hs).level THEN HandlerEmit(Head(hs), text, o) ELSE o)

\* mutant of LoggerLog: a record at the threshold itself is dropped
LoggerLog_Strict(lg, lvl, text, o) ==
    IF lvl <= EffectiveLevel(lg) THEN o
    ELSE IF lg.handlers = <<>>
         THEN IF lvl >= LevelNo("WARNING") THEN [o EXCEPT !.stderr = Append(@, text)] ELSE o
         ELSE callHandlers(lg.handlers, lvl, text, o)

\* Logger.log(lvl, text) on the logger record lg
LoggerLog(lg, lvl, text, o) ==
    IF lvl < EffectiveLevel(lg) THEN o
    ELSE IF lg.handlers = <<>>
         THEN IF lvl >= LevelNo("WARNING") THEN [o EXCEPT !.stderr = Append(@, text)] ELSE o
         ELSE callHandlers(lg.handlers, lvl, text, o)

(***************************************************************************)
(* TransactionLogger._emit and the loop of flush                           *)
(***************************************************************************)
\* the outputs after self._emit(entry); when _format_entry raises (line 168)
\* nothing has been handed to the logger and the exception leaves _emit
\* mutant of _emit: the line goes to the sinks whatever the logger's threshold
_emit_NoGate(i, entry, o) ==
    IF FormatRaises(inst[i].fmt, entry) THEN o
    ELSE callHandlers(loggers[inst[i].name].handlers,
                      LevelNo("ERROR"), _format_entry(inst[i].fmt, entry), o)

_emit(i, entry, o) ==
    IF FormatRaises(inst[i].fmt, entry) THEN o
    ELSE LoggerLog(loggers[inst[i].name],
                   getattr_logging(entry.level, LevelNo("INFO")),
                   _format_entry(inst[i].fmt, entry), o)

\* mutant of EmitAll: the loop ends at the first entry whose emission raises
RECURSIVE EmitAll_StopAtFailure(_, _, _)
EmitAll_StopAtFailure(i, entries, o) ==
    IF entries = <<>> THEN o
    ELSE IF FormatRaises(inst[i].fmt, Head(entries)) THEN o
         ELSE EmitAll_StopAtFailure(i, Tail(entries), _emit(i, Head(entries), o))

\* mutant of EmitAll: the newest entry is emitted first
RECURSIVE EmitAll_Lifo(_, _, _)
EmitAll_Lifo(i, entries, o) ==
    IF entries = <<>> THEN o
    ELSE EmitAll_Lifo(i, SubSeq(entries, 1, Len(entries) - 1),
                      _emit(i, entries[Len(entries)], o))

RECURSIVE EmitAll(_, _, _)
EmitAll(i, entries, o) ==
    IF entries = <<>> THEN o
    ELSE EmitAll(i, Tail(entries), _emit(i, Head(entries), o))

Out == [files |-> files, stderr |-> stderr, disk |-> disk]

\* mutant of Flushed: the buffer is not cleared after the entries are emitted
Flushed_NoClear(i, buf) ==
    IF buf = <<>> THEN [buffer |-> buf, out |-> Out]
    ELSE [buffer |-> buf, out |-> EmitAll(i, buf, Out)]

\* self.flush() when the buffer holds buf: the buffer and the outputs it leaves
Flushed(i, buf) ==
    IF buf = <<>> THEN [buffer |-> buf, out |-> Out]
    ELSE [buffer |-> <<>>, out |-> EmitAll(i, buf, Out)]

Threads == {"T1", "T2"}

\* a thread that is in no call
Idle == [op |-> "idle"]

NoInst ==
    [made |-> FALSE, log_file |-> "", fmt |-> "", buffer_size |-> 0,
     _buffer |-> <<>>, name |-> "", _handler |-> ""]

\* The record of a call: the method, the instance, the predicate of a query,
\* for a close whether the call before was a close of the same instance, the
\* exception that left the call and the value returned.
Call(op, i, arg, exc, ret) ==
    [op |-> op, i |-> i, arg |-> arg,
     again |-> (op = "__exit__" /\ last.op = op /\ last.i = i),
     exc |-> exc, ret |-> ret]

Returned(op, i, arg, ret) == Call(op, i, arg, "none", ret)

Raised(op, i, arg, exc) == Call(op, i, arg, exc, <<>>)

Init ==
    /\ inst = [i \in Insts |-> NoInst]
    /\ loggers = [n \in LoggerNames |-> [level |-> 0, handlers |-> <<>>]]
    /\ files = [p \in AbsPaths |-> <<>>]
    /\ stderr = <<>>
    /\ logged = <<>>
    /\ last = [op |-> "start", i |-> "A", arg |-> None, again |-> FALSE,
               exc |-> "none", ret |-> <<>>]
    /\ disk = [absent |-> AbsPaths,
               unlinked |-> [i \in Insts |-> [is |-> FALSE, lines |-> <<>>]],
               backups |-> [p \in AbsPaths |-> [k \in 1..DefaultBackupCount |-> NoFile]],
               exported |-> NoExport]
    /\ pc = [t \in Threads |-> Idle]
    /\ lock = [i \in Insts |-> None]

(***************************************************************************)
(* TransactionLogger.__init__                                              *)
(***************************************************************************)
_is_match(h, desired_path) == h.kind = "file" /\ abspath(h.path) = desired_path

Matches(hs, desired_path) == SelectSeq(hs, LAMBDA h : _is_match(h, desired_path))

\* mutant of __init__: a handler is created without looking for a matching one
__init___NoDedupe(i, log_file, fmt, max_bytes, backup_count, buffer_size, level, logger_name) ==
    /\ ~inst[i].made
    /\ IF fmt \notin {"json", "text"}
       THEN /\ last' = Raised("__init__", i, None, "ValueError")
            /\ UNCHANGED <<inst, loggers, files, stderr, logged, disk, pc, lock>>
       ELSE LET name == IF logger_name = None THEN UniqueName(i) ELSE logger_name
                desired_path == abspath(log_file)
                hs == loggers[name].handlers
                created_handler == RotatingFileHandler(desired_path, max_bytes, backup_count, i)
            IN /\ loggers' = [loggers EXCEPT ![name] =
                      [level |-> getattr_logging(upper(level), LevelNo("INFO")),
                       handlers |-> Append(hs, created_handler)]]
               /\ inst' = [inst EXCEPT ![i] =
                      [made |-> TRUE, log_file |-> log_file, fmt |-> fmt,
                       buffer_size |-> buffer_size, _buffer |-> <<>>, name |-> name,
                       _handler |-> i]]
               /\ last' = Returned("__init__", i, None, <<>>)
               /\ disk' = Opened(disk, desired_path)
               /\ UNCHANGED <<files, stderr, logged, pc, lock>>

\* mutant of __init__: the handler is attached before the format is checked
__init___ChecksLate(i, log_file, fmt, max_bytes, backup_count, buffer_size, level, logger_name) ==
    /\ ~inst[i].made
    /\ LET name == IF logger_name = None THEN UniqueName(i) ELSE logger_name
           desired_path == abspath(log_file)
           hs == loggers[name].handlers
           create == Matches(hs, desired_path) = <<>>
           created_handler == RotatingFileHandler(desired_path, max_bytes, backup_count, i)
       IN /\ loggers' = [loggers EXCEPT ![name] =
                 [level |-> getattr_logging(upper(level), LevelNo("INFO")),
                  handlers |-> IF create THEN Append(hs, created_handler) ELSE hs]]
          /\ IF fmt \notin {"json", "text"}
             THEN /\ last' = Raised("__init__", i, None, "ValueError")
                  /\ UNCHANGED inst
             ELSE /\ inst' = [inst EXCEPT ![i] =
                         [made |-> TRUE, log_file |-> log_file, fmt |-> fmt,
                          buffer_size |-> buffer_size, _buffer |-> <<>>, name |-> name,
                          _handler |-> IF create THEN i ELSE Head(Matches(hs, desired_path)).id]]
                  /\ last' = Returned("__init__", i, None, <<>>)
          /\ disk' = IF create THEN Opened(disk, desired_path) ELSE disk
          /\ UNCHANGED <<files, stderr, logged, pc, lock>>

__init__(i, log_file, fmt, max_bytes, backup_count, buffer_size, level, logger_name) ==
    /\ ~inst[i].made
    /\ IF fmt \notin {"json", "text"}
       THEN /\ last' = Raised("__init__", i, None, "ValueError")
            /\ UNCHANGED <<inst, loggers, files, stderr, logged, disk, pc, lock>>
       ELSE LET name == IF logger_name = None THEN UniqueName(i) ELSE logger_name
                desired_path == abspath(log_file)
                hs == loggers[name].handlers
                create == Matches(hs, desired_path) = <<>>
                created_handler == RotatingFileHandler(desired_path, max_bytes, backup_count, i)
            IN /\ loggers' = [loggers EXCEPT ![name] =
                      [level |-> getattr_logging(upper(level), LevelNo("INFO")),
                       handlers |-> IF create THEN Append(hs, created_handler) ELSE hs]]
               /\ inst' = [inst EXCEPT ![i] =
                      [made |-> TRUE, log_file |-> log_file, fmt |-> fmt,
                       buffer_size |-> buffer_size, _buffer |-> <<>>, name |-> name,
                       _handler |-> IF create THEN i ELSE Head(Matches(hs, desired_path)).id]]
               /\ last' = Returned("__init__", i, None, <<>>)
               /\ disk' = IF create THEN Opened(disk, desired_path) ELSE disk
               /\ UNCHANGED <<files, stderr, logged, pc, lock>>

(***************************************************************************)
(* TransactionLogger.log, flush, clear_buffer                              *)
(***************************************************************************)
\* mutant of BufferFull: the threshold test off by one
BufferFull_OffByOne(n, buffer_size) == n > buffer_size

\* line 148: len(self._buffer) >= self.buffer_size
BufferFull(n, buffer_size) == n >= buffer_size

\* mutant of log: the buffer is flushed before the payload is checked
log_ChecksLate(i, transaction, level, utcnow) ==
    /\ inst[i].made
    /\ IF ~IsDict(transaction)
       THEN /\ LET w == Flushed(i, inst[i]._buffer)
               IN /\ inst' = [inst EXCEPT ![i]._buffer = w.buffer]
                  /\ files' = w.out.files
                  /\ stderr' = w.out.stderr
                  /\ disk' = w.out.disk
            /\ last' = Raised("log", i, None, "TypeError")
            /\ UNCHANGED <<loggers, logged, pc, lock>>
       ELSE /\ Len(logged) < MaxLogs
            /\ LET entry == [timestamp |-> Len(logged) + 1, us |-> utcnow,
                             level |-> upper(level), transaction |-> transaction]
                   buf == Append(inst[i]._buffer, entry)
                   w == IF inst[i].buffer_size > 0
                        THEN IF BufferFull(Len(buf), inst[i].buffer_size)
                             THEN Flushed(i, buf)
                             ELSE [buffer |-> buf, out |-> Out]
                        ELSE [buffer |-> inst[i]._buffer, out |-> _emit(i, entry, Out)]
                   \* line 151: the exception of _emit leaves log(); the one
                   \* raised inside flush() is caught at lines 212-214
                   raises == inst[i].buffer_size = 0 /\ FormatRaises(inst[i].fmt, entry)
               IN /\ inst' = [inst EXCEPT ![i]._buffer = w.buffer]
                  /\ files' = w.out.files
                  /\ stderr' = w.out.stderr
                  /\ disk' = w.out.disk
                  /\ logged' = Append(logged, [i |-> i, us |-> utcnow, level |-> level,
                                           transaction |-> transaction])
                  /\ last' = IF raises THEN Raised("log", i, None, "TypeError")
                             ELSE Returned("log", i, None, <<>>)
            /\ UNCHANGED <<loggers, pc, lock>>

\* utcnow is the microsecond of the clock reading of line 140
log(i, transaction, level, utcnow) ==
    /\ inst[i].made
    /\ IF ~IsDict(transaction)
       THEN /\ last' = Raised("log", i, None, "TypeError")
            /\ UNCHANGED <<inst, loggers, files, stderr, logged, disk, pc, lock>>
       ELSE /\ Len(logged) < MaxLogs
            /\ LET entry == [timestamp |-> Len(logged) + 1, us |-> utcnow,
                             level |-> upper(level), transaction |-> transaction]
                   buf == Append(inst[i]._buffer, entry)
                   w == IF inst[i].buffer_size > 0
                        THEN IF BufferFull(Len(buf), inst[i].buffer_size)
                             THEN Flushed(i, buf)
                             ELSE [buffer |-> buf, out |-> Out]
                        ELSE [buffer |-> inst[i]._buffer, out |-> _emit(i, entry, Out)]
                   \* line 151: the exception of _emit leaves log(); the one
                   \* raised inside flush() is caught at lines 212-214
                   raises == inst[i].buffer_size = 0 /\ FormatRaises(inst[i].fmt, entry)
               IN /\ inst' = [inst EXCEPT ![i]._buffer = w.buffer]
                  /\ files' = w.out.files
                  /\ stderr' = w.out.stderr
                  /\ disk' = w.out.disk
                  /\ logged' = Append(logged, [i |-> i, us |-> utcnow, level |-> level,
                                           transaction |-> transaction])
                  /\ last' = IF raises THEN Raised("log", i, None, "TypeError")
                             ELSE Returned("log", i, None, <<>>)
            /\ UNCHANGED <<loggers, pc, lock>>

flush(i) ==
    /\ inst[i].made
    /\ LET w == Flushed(i, inst[i]._buffer)
       IN /\ inst' = [inst EXCEPT ![i]._buffer = w.buffer]
          /\ files' = w.out.files
          /\ stderr' = w.out.stderr
          /\ disk' = w.out.disk
    /\ last' = Returned("flush", i, None, <<>>)
    /\ UNCHANGED <<loggers, logged, pc, lock>>

\* mutant of clear_buffer: the entries are emitted before the buffer is cleared
clear_buffer_Emits(i) ==
    /\ inst[i].made
    /\ LET w == Flushed(i, inst[i]._buffer)
       IN /\ inst' = [inst EXCEPT ![i]._buffer = <<>>]
          /\ files' = w.out.files
          /\ stderr' = w.out.stderr
          /\ disk' = w.out.disk
    /\ last' = Returned("clear_buffer", i, None, <<>>)
    /\ UNCHANGED <<loggers, logged, pc, lock>>

clear_buffer(i) ==
    /\ inst[i].made
    /\ inst' = [inst EXCEPT ![i]._buffer = <<>>]
    /\ last' = Returned("clear_buffer", i, None, <<>>)
    /\ UNCHANGED <<loggers, files, stderr, logged, disk, pc, lock>>

(***************************************************************************)
(* TransactionLogger.query                                                 *)
(***************************************************************************)
\* json.loads(line) of lines 307-310, {"raw": line} when it fails, and line 312
Parse(fmt, line) ==
    IF fmt = "json" /\ line.f = "json"
    THEN [timestamp |-> line.timestamp, us |-> line.us, level |-> line.level,
          transaction |-> [k \in DOMAIN line.transaction |-> loads(line.transaction[k])]]
    ELSE [raw |-> line]

ParseAll(fmt, lines) == [k \in 1..Len(lines) |-> Parse(fmt, lines[k])]

\* the predicates handed to query:
\*   all     lambda e: True
\*   none    lambda e: False
\*   ok_info lambda e: e["transaction"]["status"] == "ok" and e["level"] == "INFO"
ConstantPredicates == {"all", "none"}

PredicateArgs == ConstantPredicates \cup {"ok_info"}

\* predicate(parsed): "true", "false", or "raise" when the call raises
\* (KeyError on an entry without the key)
Apply(predicate, parsed) ==
    CASE predicate = "all" -> "true"
      [] predicate = "none" -> "false"
      [] predicate = "ok_info" ->
            IF "transaction" \notin DOMAIN parsed THEN "raise"
            ELSE IF "status" \notin DOMAIN parsed.transaction THEN "raise"
            ELSE IF parsed.transaction.status = PyStr /\ parsed.level = "INFO"
                 THEN "true" ELSE "false"

\* lines 313-318: the entry is kept when the predicate returns true; one on
\* which it raises is skipped
Holds(predicate, parsed) == Apply(predicate, parsed) = "true"

\* mutant of Scan: the matches are returned newest first
Scan_NewestFirst(fmt, lines, predicate) ==
    LET found == SelectSeq(ParseAll(fmt, lines), LAMBDA e : Holds(predicate, e))
    IN [k \in 1..Len(found) |-> found[Len(found) + 1 - k]]

\* mutant of Scan: the scan stops at the first entry the predicate raises on
Scan_StopAtRaise(fmt, lines, predicate) ==
    LET parsed == ParseAll(fmt, lines)
        bad == {k \in 1..Len(parsed) : Apply(predicate, parsed[k]) = "raise"}
        upto == IF bad = {} THEN Len(parsed)
                ELSE (CHOOSE k \in bad : \A m \in bad : k <= m) - 1
    IN SelectSeq(SubSeq(parsed, 1, upto), LAMBDA e : Holds(predicate, e))

\* lines 298-321: the scan of the file whose lines are given
Scan(fmt, lines, predicate) ==
    SelectSeq(ParseAll(fmt, lines), LAMBDA e : Holds(predicate, e))

\* mutant of ReadFile: the newest backup is read before the active file
ReadFile_WithBackups(o, p) ==
    IF p \in o.disk.absent THEN [found |-> FALSE, lines |-> <<>>]
    ELSE [found |-> TRUE, lines |-> o.disk.backups[p][1].lines \o o.files[p]]

\* open(self.log_file) and the read of its lines; found is FALSE when open
\* raises FileNotFoundError
ReadFile(o, p) ==
    IF p \in o.disk.absent THEN [found |-> FALSE, lines |-> <<>>]
    ELSE [found |-> TRUE, lines |-> o.files[p]]

\* mutant of query: the file is read before the buffer is flushed
query_ReadFirst(i, predicate) ==
    /\ inst[i].made
    /\ LET w == Flushed(i, inst[i]._buffer)
       IN /\ inst' = [inst EXCEPT ![i]._buffer = w.buffer]
          /\ files' = w.out.files
          /\ stderr' = w.out.stderr
          /\ disk' = w.out.disk
          /\ last' = Returned("query", i, predicate,
                 Scan(inst[i].fmt, files[abspath(inst[i].log_file)], predicate))
    /\ UNCHANGED <<loggers, logged, pc, lock>>

query(i, predicate) ==
    /\ inst[i].made
    /\ LET w == Flushed(i, inst[i]._buffer)
           r == ReadFile(w.out, abspath(inst[i].log_file))
       IN /\ inst' = [inst EXCEPT ![i]._buffer = w.buffer]
          /\ files' = w.out.files
          /\ stderr' = w.out.stderr
          /\ disk' = w.out.disk
          /\ last' = Returned("query", i, predicate,
                 IF r.found THEN Scan(inst[i].fmt, r.lines, predicate) ELSE <<>>)
    /\ UNCHANGED <<loggers, logged, pc, lock>>

(***************************************************************************)
(* TransactionLogger.count, sum_field, avg_field                           *)
(***************************************************************************)
\* the query made by count, sum_field and avg_field: the state it leaves and
\* the parsed entries of the file (none when the file is missing)
Queried(i) ==
    LET w == Flushed(i, inst[i]._buffer)
        r == ReadFile(w.out, abspath(inst[i].log_file))
    IN [buffer |-> w.buffer, out |-> w.out,
        entries |-> IF r.found THEN ParseAll(inst[i].fmt, r.lines) ELSE <<>>]

\* mutant of count: the file is emptied once it has been read
count_Drains(i, predicate) ==
    /\ inst[i].made
    /\ LET q == Queried(i)
           pred == IF predicate = None THEN "all" ELSE predicate
       IN /\ inst' = [inst EXCEPT ![i]._buffer = q.buffer]
          /\ files' = [q.out.files EXCEPT ![abspath(inst[i].log_file)] = <<>>]
          /\ stderr' = q.out.stderr
          /\ disk' = q.out.disk
          /\ last' = Returned("count", i, predicate,
                 Len(SelectSeq(q.entries, LAMBDA e : Holds(pred, e))))
    /\ UNCHANGED <<loggers, logged, pc, lock>>

count(i, predicate) ==
    /\ inst[i].made
    /\ LET q == Queried(i)
           pred == IF predicate = None THEN "all" ELSE predicate
       IN /\ inst' = [inst EXCEPT ![i]._buffer = q.buffer]
          /\ files' = q.out.files
          /\ stderr' = q.out.stderr
          /\ disk' = q.out.disk
          /\ last' = Returned("count", i, predicate,
                 Len(SelectSeq(q.entries, LAMBDA e : Holds(pred, e))))
    /\ UNCHANGED <<loggers, logged, pc, lock>>

FieldArgs == {"id", "status", "nope"}

\* lines 336-337: pred(e)
HasField(e, field) == "transaction" \in DOMAIN e /\ field \in DOMAIN e.transaction

\* the number a numeric text stands for
Num(text) == IF text = "7" THEN 7 ELSE 5

\* float(v) does not raise: an int, or a str holding a number
Convertible(v) == v.t = "int" \/ (v.t = "str" /\ v.v \in {"7", "5"})

\* lines 339-344 and 353-357: the values float() converts, in file order
Values(entries, field) ==
    LET with == SelectSeq(entries, LAMBDA e : HasField(e, field))
        num == SelectSeq(with, LAMBDA e : Convertible(e.transaction[field]))
    IN [k \in 1..Len(num) |-> Num(num[k].transaction[field].v)]

RECURSIVE sum(_)
sum(values) == IF values = <<>> THEN 0 ELSE Head(values) + sum(Tail(values))

sum_field(i, field) ==
    /\ inst[i].made
    /\ LET q == Queried(i)
       IN /\ inst' = [inst EXCEPT ![i]._buffer = q.buffer]
          /\ files' = q.out.files
          /\ stderr' = q.out.stderr
          /\ disk' = q.out.disk
          /\ last' = Returned("sum_field", i, field, sum(Values(q.entries, field)))
    /\ UNCHANGED <<loggers, logged, pc, lock>>

\* avg_field returns None, or the quotient sum(values) / len(values) as the
\* pair (num, den); None is the record with none = TRUE
NoAverage == [none |-> TRUE, num |-> 0, den |-> 0]

\* mutant of avg_field: the sum is divided by the number of entries that
\* have the field
avg_field_AllWithField(i, field) ==
    /\ inst[i].made
    /\ LET q == Queried(i)
           values == Values(q.entries, field)
           with == SelectSeq(q.entries, LAMBDA e : HasField(e, field))
       IN /\ inst' = [inst EXCEPT ![i]._buffer = q.buffer]
          /\ files' = q.out.files
          /\ stderr' = q.out.stderr
          /\ disk' = q.out.disk
          /\ last' = Returned("avg_field", i, field,
                 IF with = <<>> THEN NoAverage
                 ELSE [none |-> FALSE, num |-> sum(values), den |-> Len(with)])
    /\ UNCHANGED <<loggers, logged, pc, lock>>

avg_field(i, field) ==
    /\ inst[i].made
    /\ LET q == Queried(i)
           values == Values(q.entries, field)
       IN /\ inst' = [inst EXCEPT ![i]._buffer = q.buffer]
          /\ files' = q.out.files
          /\ stderr' = q.out.stderr
          /\ disk' = q.out.disk
          /\ last' = Returned("avg_field", i, field,
                 IF values = <<>> THEN NoAverage
                 ELSE [none |-> FALSE, num |-> sum(values), den |-> Len(values)])
    /\ UNCHANGED <<loggers, logged, pc, lock>>

(***************************************************************************)
(* TransactionLogger.export                                                *)
(***************************************************************************)
ExportFmtArgs == {"json", "CSV", "xml"}

\* str.lower
lower(x) == IF x = "CSV" THEN "csv" ELSE x

\* line 264: json.dumps(e) of a parsed entry
dumpsEntry(e) ==
    IF "raw" \in DOMAIN e THEN [f |-> "json", raw |-> e.raw]
    ELSE [f |-> "json", timestamp |-> e.timestamp, us |-> e.us, level |-> e.level,
          transaction |-> [k \in DOMAIN e.transaction |-> dumps(e.transaction[k])]]

\* lines 272-278: the row of an entry
Row(e) ==
    IF "transaction" \in DOMAIN e
    THEN [k \in DOMAIN e.transaction \cup {"_timestamp", "_level"} |->
             IF k = "_timestamp" THEN e.timestamp
             ELSE IF k = "_level" THEN e.level
             ELSE e.transaction[k]]
    ELSE [raw |-> e]

\* the keys that can appear in a row, in the order sorted() gives them
SortedKeys == <<"1", "_level", "_timestamp", "id", "raw", "status">>

\* mutant of sorted: the reverse order
sorted_Reverse(keys) ==
    LET up == SelectSeq(SortedKeys, LAMBDA k : k \in keys)
    IN [j \in 1..Len(up) |-> up[Len(up) + 1 - j]]

\* line 282: sorted(headers)
sorted(keys) == SelectSeq(SortedKeys, LAMBDA k : k \in keys)

\* line 288: a value that is not a scalar is written as its JSON text, and
\* DictWriter writes "" for a column the row does not have
Cell(row, k) ==
    IF k \notin DOMAIN row THEN ""
    ELSE IF k \in {"_timestamp", "_level", "raw"} THEN row[k]
    ELSE IF row[k].t = "list" THEN [t |-> "str", v |-> row[k].v]
    ELSE row[k]

\* lines 261-289: what is written to the export file for the entries
Written(fmt, entries) ==
    IF fmt = "json"
    THEN [fmt |-> "json", lines |-> [k \in 1..Len(entries) |-> dumpsEntry(entries[k])]]
    ELSE LET rows == [k \in 1..Len(entries) |-> Row(entries[k])]
             headers == UNION {DOMAIN rows[k] : k \in 1..Len(rows)}
         IN [fmt |-> "csv", header |-> sorted(headers),
             rows |-> [k \in 1..Len(rows) |-> [c \in headers |-> Cell(rows[k], c)]]]

\* mutant of export: FileNotFoundError is not caught and no output is written
export_NoCatch(i, fmt) ==
    /\ inst[i].made
    /\ IF lower(fmt) \notin {"json", "csv"}
       THEN /\ last' = Raised("export", i, fmt, "ValueError")
            /\ UNCHANGED <<inst, loggers, files, stderr, logged, disk, pc, lock>>
       ELSE LET w == Flushed(i, inst[i]._buffer)
                r == ReadFile(w.out, abspath(inst[i].log_file))
            IN /\ inst' = [inst EXCEPT ![i]._buffer = w.buffer]
               /\ files' = w.out.files
               /\ stderr' = w.out.stderr
               /\ disk' = IF r.found
                          THEN [w.out.disk EXCEPT !.exported =
                                   Written(lower(fmt), ParseAll(inst[i].fmt, r.lines))]
                          ELSE w.out.disk
               /\ last' = IF r.found THEN Returned("export", i, fmt, <<>>)
                          ELSE Raised("export", i, fmt, "FileNotFoundError")
               /\ UNCHANGED <<loggers, logged, pc, lock>>

\* mutant of export: the log file is read before the buffer is flushed
export_ReadFirst(i, fmt) ==
    /\ inst[i].made
    /\ IF lower(fmt) \notin {"json", "csv"}
       THEN /\ last' = Raised("export", i, fmt, "ValueError")
            /\ UNCHANGED <<inst, loggers, files, stderr, logged, disk, pc, lock>>
       ELSE LET w == Flushed(i, inst[i]._buffer)
                r == ReadFile(Out, abspath(inst[i].log_file))
                entries == IF r.found THEN ParseAll(inst[i].fmt, r.lines) ELSE <<>>
            IN /\ inst' = [inst EXCEPT ![i]._buffer = w.buffer]
               /\ files' = w.out.files
               /\ stderr' = w.out.stderr
               /\ disk' = [w.out.disk EXCEPT !.exported = Written(lower(fmt), entries)]
               /\ last' = Returned("export", i, fmt, <<>>)
               /\ UNCHANGED <<loggers, logged, pc, lock>>

\* export(path, fmt) to a path that is not a log file
export(i, fmt) ==
    /\ inst[i].made
    /\ IF lower(fmt) \notin {"json", "csv"}
       THEN /\ last' = Raised("export", i, fmt, "ValueError")
            /\ UNCHANGED <<inst, loggers, files, stderr, logged, disk, pc, lock>>
       ELSE LET w == Flushed(i, inst[i]._buffer)
                r == ReadFile(w.out, abspath(inst[i].log_file))
                entries == IF r.found THEN ParseAll(inst[i].fmt, r.lines) ELSE <<>>
            IN /\ inst' = [inst EXCEPT ![i]._buffer = w.buffer]
               /\ files' = w.out.files
               /\ stderr' = w.out.stderr
               /\ disk' = [w.out.disk EXCEPT !.exported = Written(lower(fmt), entries)]
               /\ last' = Returned("export", i, fmt, <<>>)
               /\ UNCHANGED <<loggers, logged, pc, lock>>

(***************************************************************************)
(* TransactionLogger.__exit__                                              *)
(***************************************************************************)
\* mutant of __exit__: the handlers are closed and removed without the flush
__exit___NoFlush(i, exc_type) ==
    /\ inst[i].made
    /\ inst' = [inst EXCEPT ![i]._buffer = <<>>]
    /\ loggers' = [loggers EXCEPT ![inst[i].name].handlers = <<>>]
    /\ last' = IF exc_type = None THEN Returned("__exit__", i, None, <<>>)
               ELSE Raised("__exit__", i, None, exc_type)
    /\ disk' = Closed(disk, loggers[inst[i].name].handlers)
    /\ UNCHANGED <<files, stderr, logged, pc, lock>>

\* mutant of __exit__: the failure of a sink's flush() leaves the call, the
\* sinks from that one on stay attached
__exit___RaisesOnFault(i, exc_type) ==
    /\ inst[i].made
    /\ LET w == Flushed(i, inst[i]._buffer)
           hs == loggers[inst[i].name].handlers
           bad == {k \in DOMAIN hs : hs[k].faulty}
           first == IF bad = {} THEN Len(hs) + 1 ELSE CHOOSE k \in bad : \A m \in bad : k <= m
       IN /\ inst' = [inst EXCEPT ![i]._buffer = w.buffer]
          /\ files' = w.out.files
          /\ stderr' = w.out.stderr
          /\ disk' = Closed(w.out.disk, SubSeq(hs, 1, first - 1))
          /\ loggers' = [loggers EXCEPT ![inst[i].name].handlers =
                 IF bad = {} THEN <<>> ELSE SubSeq(hs, first, Len(hs))]
          /\ last' = IF bad # {} THEN Raised("__exit__", i, None, "OSError")
                     ELSE IF exc_type = None THEN Returned("__exit__", i, None, <<>>)
                     ELSE Raised("__exit__", i, None, exc_type)
    /\ UNCHANGED <<logged, pc, lock>>

\* exc_type is the exception leaving the with-block, None when there is none;
\* __exit__ returns None, so the with statement raises it again
__exit__(i, exc_type) ==
    /\ inst[i].made
    /\ LET w == Flushed(i, inst[i]._buffer)
       IN /\ inst' = [inst EXCEPT ![i]._buffer = w.buffer]
          /\ files' = w.out.files
          /\ stderr' = w.out.stderr
          /\ disk' = Closed(w.out.disk, loggers[inst[i].name].handlers)
    /\ loggers' = [loggers EXCEPT ![inst[i].name].handlers = <<>>]
    /\ last' = IF exc_type = None THEN Returned("__exit__", i, None, <<>>)
               ELSE Raised("__exit__", i, None, exc_type)
    /\ UNCHANGED <<logged, pc, lock>>

(***************************************************************************)
(* TransactionLogger.enable_console, set_level                             *)
(***************************************************************************)
\* isinstance(h, logging.StreamHandler): RotatingFileHandler is a subclass of
\* FileHandler, which is a subclass of StreamHandler
IsStreamHandler(h) == h.kind \in {"console", "file"}

enable_console(i, enable, level) ==
    /\ inst[i].made
    /\ LET hs == loggers[inst[i].name].handlers
           ch == StreamHandler(IF level = None THEN 0
                               ELSE getattr_logging(upper(level), LevelNo("INFO")), i)
       IN loggers' = [loggers EXCEPT ![inst[i].name].handlers =
              IF enable
              THEN IF SelectSeq(hs, IsStreamHandler) = <<>> THEN Append(hs, ch) ELSE hs
              ELSE SelectSeq(hs, LAMBDA h : ~IsStreamHandler(h))]
    /\ last' = Returned("enable_console", i, None, <<>>)
    /\ disk' = IF enable THEN disk
               ELSE Closed(disk, SelectSeq(loggers[inst[i].name].handlers, IsStreamHandler))
    /\ UNCHANGED <<inst, files, stderr, logged, pc, lock>>

\* mutant of set_level: the level of the handlers is left as it was
set_level_LoggerOnly(i, level) ==
    /\ inst[i].made
    /\ IF upper(level) \notin LevelNames
       THEN /\ last' = Raised("set_level", i, None, "ValueError")
            /\ UNCHANGED <<inst, loggers, files, stderr, logged, disk, pc, lock>>
       ELSE /\ loggers' = [loggers EXCEPT ![inst[i].name].level = LevelNo(upper(level))]
            /\ last' = Returned("set_level", i, None, <<>>)
            /\ UNCHANGED <<inst, files, stderr, logged, disk, pc, lock>>

set_level(i, level) ==
    /\ inst[i].made
    /\ IF upper(level) \notin LevelNames
       THEN /\ last' = Raised("set_level", i, None, "ValueError")
            /\ UNCHANGED <<inst, loggers, files, stderr, logged, disk, pc, lock>>
       ELSE /\ loggers' = [loggers EXCEPT ![inst[i].name] =
                   [level |-> LevelNo(upper(level)),
                    handlers |-> [k \in 1..Len(@.handlers) |->
                                    [@.handlers[k] EXCEPT !.level = LevelNo(upper(level))]]]]
            /\ last' = Returned("set_level", i, None, <<>>)
            /\ UNCHANGED <<inst, files, stderr, logged, disk, pc, lock>>

(***************************************************************************)
(* The environment.                                                        *)
(***************************************************************************)
\* the file handlers of any logger whose stream is open on the file at path p
OpenOn(p) ==
    {h \in UNION {{loggers[n].handlers[k] : k \in 1..Len(loggers[n].handlers)} : n \in LoggerNames} :
        h.kind = "file" /\ h.path = p /\ ~disk.unlinked[h.id].is}

(***************************************************************************)
(* log, flush and clear_buffer called from threads: a call is a sequence   *)
(* of steps, pc[t] is the position of thread t in its call and lock[i] the *)
(* thread that holds self._lock of instance i (an RLock: the flush() made  *)
(* inside log() enters it again).                                          *)
(***************************************************************************)
\* lines 136-143: the argument check and the entry, built before the lock
log_begin(t, i, transaction, utcnow) ==
    /\ pc[t].op = "idle" /\ inst[i].made
    /\ IsDict(transaction)
    /\ Len(logged) < MaxLogs
    /\ pc' = [pc EXCEPT ![t] =
           [op |-> "log", i |-> i, at |-> "acquire", k |-> 0,
            entry |-> [timestamp |-> Len(logged) + 1, us |-> utcnow, level |-> "INFO",
                       transaction |-> transaction]]]
    /\ logged' = Append(logged, [i |-> i, us |-> utcnow, level |-> "INFO",
                               transaction |-> transaction])
    /\ UNCHANGED <<inst, loggers, files, stderr, last, disk, lock>>

flush_begin(t, i) ==
    /\ pc[t].op = "idle" /\ inst[i].made
    /\ pc' = [pc EXCEPT ![t] = [op |-> "flush", i |-> i, at |-> "acquire", k |-> 0]]
    /\ UNCHANGED <<inst, loggers, files, stderr, logged, last, disk, lock>>

clear_buffer_begin(t, i) ==
    /\ pc[t].op = "idle" /\ inst[i].made
    /\ pc' = [pc EXCEPT ![t] = [op |-> "clear_buffer", i |-> i, at |-> "acquire", k |-> 0]]
    /\ UNCHANGED <<inst, loggers, files, stderr, logged, last, disk, lock>>

\* mutant of acquire: the thread enters without waiting for the lock
acquire_NoWait(t) ==
    /\ pc[t].op # "idle" /\ pc[t].at = "acquire"
    /\ lock' = [lock EXCEPT ![pc[t].i] = t]
    /\ pc' = [pc EXCEPT ![t].at = "body"]
    /\ UNCHANGED <<inst, loggers, files, stderr, logged, last, disk>>

\* with self._lock: the thread waits until no other thread holds the lock
acquire(t) ==
    /\ pc[t].op # "idle" /\ pc[t].at = "acquire"
    /\ lock[pc[t].i] = None
    /\ lock' = [lock EXCEPT ![pc[t].i] = t]
    /\ pc' = [pc EXCEPT ![t].at = "body"]
    /\ UNCHANGED <<inst, loggers, files, stderr, logged, last, disk>>

\* lines 146-151
log_body(t) ==
    /\ pc[t].op = "log" /\ pc[t].at = "body"
    /\ LET i == pc[t].i
           buf == Append(inst[i]._buffer, pc[t].entry)
       IN IF inst[i].buffer_size > 0
          THEN /\ inst' = [inst EXCEPT ![i]._buffer = buf]
               /\ pc' = [pc EXCEPT ![t].at =
                      IF BufferFull(Len(buf), inst[i].buffer_size) THEN "reenter" ELSE "release",
                                   ![t].k = 1]
               /\ UNCHANGED <<files, stderr, disk>>
          ELSE LET o == _emit(i, pc[t].entry, Out)
               IN /\ files' = o.files
                  /\ stderr' = o.stderr
                  /\ disk' = o.disk
                  /\ pc' = [pc EXCEPT ![t].at = "release"]
                  /\ UNCHANGED inst
    /\ UNCHANGED <<loggers, logged, last, lock>>

\* mutant of reenter: the lock is not reentrant, its holder waits for itself
reenter_NonReentrant(t) ==
    /\ pc[t].op = "log" /\ pc[t].at = "reenter"
    /\ lock[pc[t].i] = None
    /\ pc' = [pc EXCEPT ![t].at = "emit"]
    /\ UNCHANGED <<inst, loggers, files, stderr, logged, last, disk, lock>>

\* lines 149 and 205: the self.flush() made by log() takes self._lock again;
\* an RLock (line 68) lets the thread that holds it in
reenter(t) ==
    /\ pc[t].op = "log" /\ pc[t].at = "reenter"
    /\ lock[pc[t].i] \in {None, t}
    /\ pc' = [pc EXCEPT ![t].at = "emit"]
    /\ UNCHANGED <<inst, loggers, files, stderr, logged, last, disk, lock>>

\* lines 206-207
flush_body(t) ==
    /\ pc[t].op = "flush" /\ pc[t].at = "body"
    /\ pc' = [pc EXCEPT ![t].at = IF inst[pc[t].i]._buffer = <<>> THEN "release" ELSE "emit",
                        ![t].k = 1]
    /\ UNCHANGED <<inst, loggers, files, stderr, logged, last, disk, lock>>

\* lines 209-214: one turn of the loop over self._buffer
flush_emit(t) ==
    /\ pc[t].op \in {"log", "flush"} /\ pc[t].at = "emit"
    /\ LET i == pc[t].i
       IN IF pc[t].k > Len(inst[i]._buffer)
          THEN /\ pc' = [pc EXCEPT ![t].at = "clear"]
               /\ UNCHANGED <<files, stderr, disk>>
          ELSE LET o == _emit(i, inst[i]._buffer[pc[t].k], Out)
               IN /\ files' = o.files
                  /\ stderr' = o.stderr
                  /\ disk' = o.disk
                  /\ pc' = [pc EXCEPT ![t].k = @ + 1]
    /\ UNCHANGED <<inst, loggers, logged, last, lock>>

\* line 215
flush_clear(t) ==
    /\ pc[t].op \in {"log", "flush"} /\ pc[t].at = "clear"
    /\ inst' = [inst EXCEPT ![pc[t].i]._buffer = <<>>]
    /\ pc' = [pc EXCEPT ![t].at = "release"]
    /\ UNCHANGED <<loggers, files, stderr, logged, last, disk, lock>>

\* line 220
clear_buffer_body(t) ==
    /\ pc[t].op = "clear_buffer" /\ pc[t].at = "body"
    /\ inst' = [inst EXCEPT ![pc[t].i]._buffer = <<>>]
    /\ pc' = [pc EXCEPT ![t].at = "release"]
    /\ UNCHANGED <<loggers, files, stderr, logged, last, disk, lock>>

\* __exit__ called from a thread
exit_begin(t, i) ==
    /\ pc[t].op = "idle" /\ inst[i].made
    /\ pc' = [pc EXCEPT ![t] = [op |-> "__exit__", i |-> i, at |-> "acquire", k |-> 0]]
    /\ UNCHANGED <<inst, loggers, files, stderr, logged, last, disk, lock>>

\* line 117: self.flush(), the whole of it under the lock, which is released
\* when flush() returns; the thread then waits for the lock at line 120
exit_flush(t) ==
    /\ pc[t].op = "__exit__" /\ pc[t].at = "body" /\ pc[t].k = 0
    /\ LET i == pc[t].i
           w == Flushed(i, inst[i]._buffer)
       IN /\ inst' = [inst EXCEPT ![i]._buffer = w.buffer]
          /\ files' = w.out.files
          /\ stderr' = w.out.stderr
          /\ disk' = w.out.disk
          /\ lock' = [lock EXCEPT ![i] = None]
    /\ pc' = [pc EXCEPT ![t].at = "acquire", ![t].k = 1]
    /\ UNCHANGED <<loggers, logged, last>>

\* lines 120-126: the handlers are flushed, closed and removed
exit_close(t) ==
    /\ pc[t].op = "__exit__" /\ pc[t].at = "body" /\ pc[t].k = 1
    /\ loggers' = [loggers EXCEPT ![inst[pc[t].i].name].handlers = <<>>]
    /\ disk' = Closed(disk, loggers[inst[pc[t].i].name].handlers)
    /\ pc' = [pc EXCEPT ![t].at = "release"]
    /\ UNCHANGED <<inst, files, stderr, logged, last, lock>>

\* the end of the with block: the lock is released and the call returns
release(t) ==
    /\ pc[t].op # "idle" /\ pc[t].at = "release"
    /\ lock' = [lock EXCEPT ![pc[t].i] = None]
    /\ last' = Returned(pc[t].op, pc[t].i, None, <<>>)
    /\ pc' = [pc EXCEPT ![t] = Idle]
    /\ UNCHANGED <<inst, loggers, files, stderr, logged, disk>>

\* the stream of the k-th sink of logger n starts to fail (a full disk, a
\* closed descriptor): its emit, flush() and close() raise from then on
SinkFault(n, k) ==
    /\ k \in DOMAIN loggers[n].handlers
    /\ ~loggers[n].handlers[k].faulty
    /\ loggers' = [loggers EXCEPT ![n].handlers[k].faulty = TRUE]
    /\ last' = Returned("fault", last.i, None, <<>>)
    /\ UNCHANGED <<inst, files, stderr, logged, disk, pc, lock>>

\* os.unlink(p) by the program using the logger (as the test at
\* test_transaction_logging.py:162 does): the name is removed, a stream that
\* is open on the file keeps writing to the unlinked file
RemoveFile(p) ==
    /\ p \notin disk.absent
    /\ disk' = [disk EXCEPT !.absent = @ \cup {p},
                            !.unlinked = [i \in DOMAIN @ |->
                                IF \E h \in OpenOn(p) : h.id = i
                                THEN [is |-> TRUE, lines |-> files[p]] ELSE @[i]]]
    /\ files' = [files EXCEPT ![p] = <<>>]
    /\ last' = Returned("unlink", last.i, None, <<>>)
    /\ UNCHANGED <<inst, loggers, stderr, logged, pc, lock>>

(***************************************************************************)
(* Specifications.                                                         *)
(*   Spec    : one instance, the whole interface, calls in any order.      *)
(*   SpecTwo : two instances sharing or not a logger name and a path;      *)
(*             unbuffered, structured format.                              *)
(*   SpecRT  : one instance, every payload: log, flush and query.          *)
(*   SpecKeys: one instance, payloads whose keys are not strings.          *)
(*   The others are introduced where they are defined.                     *)
(***************************************************************************)
LogLevelArgs == {"INFO", "error"}

ExcArgs == {None, "KeyError"}

Next ==
    \/ \E f \in FmtArgs, b \in 0..MaxBuf, l \in LevelArgs :
          __init__("A", "t.log", f, DefaultMaxBytes, DefaultBackupCount, b, l, None)
    \/ \E t \in {TxnSafe, NotADict}, l \in LogLevelArgs : log("A", t, l, 5)
    \/ flush("A")
    \/ clear_buffer("A")
    \/ \E q \in ConstantPredicates : query("A", q)
    \/ \E e \in ExcArgs : __exit__("A", e)
    \/ \E e \in BOOLEAN, l \in {None, "error"} : enable_console("A", e, l)
    \/ \E l \in LevelArgs : set_level("A", l)

Spec == Init /\ [][Next]_vars

NextTwo ==
    \/ \E l \in LevelArgs, n \in LoggerNameArgs : __init__("A", "t.log", "json", DefaultMaxBytes, DefaultBackupCount, 0, l, n)
    \/ \E p \in LogFileArgs \ {"t.log"}, l \in LevelArgs, n \in LoggerNameArgs :
          __init__("B", p, "json", DefaultMaxBytes, DefaultBackupCount, 0, l, n)
    \/ \E i \in Insts, l \in LogLevelArgs : log(i, TxnSafe, l, 5)
    \/ \E i \in Insts : __exit__(i, None)
    \/ \E i \in Insts : enable_console(i, FALSE, None)

SpecTwo == Init /\ [][NextTwo]_vars

NextRT ==
    \/ \E f \in {"json", "text"}, b \in 0..MaxBuf, l \in LevelArgs :
          __init__("A", "t.log", f, DefaultMaxBytes, DefaultBackupCount, b, l, None)
    \/ \E t \in Dicts, l \in LogLevelArgs : log("A", t, l, 5)
    \/ flush("A")
    \/ \E q \in PredicateArgs : query("A", q)

SpecRT == Init /\ [][NextRT]_vars

NextKeys ==
    \/ \E f \in {"json", "text"}, b \in 0..MaxBuf : __init__("A", "t.log", f, DefaultMaxBytes, DefaultBackupCount, b, "INFO", None)
    \/ \E t \in {TxnSafe} \cup KeyedDicts, l \in LogLevelArgs : log("A", t, l, 5)
    \/ flush("A")

SpecKeys == Init /\ [][NextKeys]_vars

\* SpecExport: one instance; export and query, the log file removed or not
NextExport ==
    \/ \E f \in {"json", "text"}, b \in {0, MaxBuf} :
          __init__("A", "t.log", f, DefaultMaxBytes, DefaultBackupCount, b, "INFO", None)
    \/ \E t \in {TxnSafe, TxnTuple, TxnIntKey} : log("A", t, "INFO", 5)
    \/ \E q \in ConstantPredicates : query("A", q)
    \/ \E f \in ExportFmtArgs : export("A", f)
    \/ RemoveFile("/cwd/t.log")

SpecExport == Init /\ [][NextExport]_vars

\* SpecRot: one instance, structured format, a file sink of every size limit
\* and backup count; writes stamped on and off a whole second (lines of 77,
\* 84 and 96 bytes), rotations and the reading operations
NextRot ==
    \/ \E m \in MaxBytesArgs, c \in BackupCountArgs, b \in {0, MaxBuf} :
          __init__("A", "t.log", "json", m, c, b, "INFO", None)
    \/ \E us \in MicrosecondArgs : log("A", TxnNumStr, "INFO", us)
    \/ log("A", TxnSafe, "INFO", 5)
    \/ flush("A")
    \/ \E q \in ConstantPredicates : query("A", q)
    \/ count("A", None)
    \/ sum_field("A", "id")
    \/ avg_field("A", "id")
    \/ \E f \in {"json", "CSV"} : export("A", f)

SpecRot == Init /\ [][NextRot]_vars

\* SpecFail: two instances on one logger name and two files, buffered or
\* not; a sink can start to fail
NextFail ==
    \/ \E b \in {0, MaxBuf} : __init__("A", "t.log", "json", DefaultMaxBytes, DefaultBackupCount, b, "INFO", "shared")
    \/ \E b \in {0, MaxBuf} : __init__("B", "/cwd/u.log", "json", DefaultMaxBytes, DefaultBackupCount, b, "INFO", "shared")
    \/ \E i \in Insts : log(i, TxnSafe, "INFO", 5)
    \/ \E k \in 1..2 : SinkFault("shared", k)
    \/ \E i \in Insts, e \in ExcArgs : __exit__(i, e)

SpecFail == Init /\ [][NextFail]_vars

\* SpecThreads: one instance, built once; two threads call log, flush and
\* clear_buffer, their steps interleaved in any order
BufferSizeArgs == {0, 2, MaxBuf}

NextThreads ==
    \/ \E b \in BufferSizeArgs :
          /\ ~inst["A"].made
          /\ __init__("A", "t.log", "json", DefaultMaxBytes, DefaultBackupCount, b, "INFO", None)
    \/ \E t \in Threads : log_begin(t, "A", TxnSafe, 5)
    \/ \E t \in Threads : flush_begin(t, "A")
    \/ \E t \in Threads : clear_buffer_begin(t, "A")
    \/ \E t \in Threads : acquire(t)
    \/ \E t \in Threads : log_body(t)
    \/ \E t \in Threads : reenter(t)
    \/ \E t \in Threads : flush_body(t)
    \/ \E t \in Threads : flush_emit(t)
    \/ \E t \in Threads : flush_clear(t)
    \/ \E t \in Threads : clear_buffer_body(t)
    \/ \E t \in Threads : release(t)

SpecThreads == Init /\ [][NextThreads]_vars

\* instance i has not been closed: its logger still has the sinks
Open(i) == inst[i].made /\ loggers[inst[i].name].handlers # <<>>

\* SpecClose: one buffered instance, built once; threads call log while the
\* sink is attached, and one thread closes the instance
NextClose ==
    \/ \E b \in {2, MaxBuf} :
          /\ ~inst["A"].made
          /\ __init__("A", "t.log", "json", DefaultMaxBytes, DefaultBackupCount, b, "INFO", None)
    \/ \E t \in Threads : Open("A") /\ log_begin(t, "A", TxnSafe, 5)
    \/ \E t \in Threads :
          /\ Open("A")
          /\ \A u \in Threads : pc[u].op # "__exit__"
          /\ exit_begin(t, "A")
    \/ \E t \in Threads : acquire(t)
    \/ \E t \in Threads : log_body(t)
    \/ \E t \in Threads : reenter(t)
    \/ \E t \in Threads : flush_emit(t)
    \/ \E t \in Threads : flush_clear(t)
    \/ \E t \in Threads : exit_flush(t)
    \/ \E t \in Threads : exit_close(t)
    \/ \E t \in Threads : release(t)

SpecClose == Init /\ [][NextClose]_vars

\* a step of thread t inside a call that does not wait for another thread
Step(t) ==
    \/ log_body(t) \/ reenter(t) \/ flush_body(t) \/ flush_emit(t)
    \/ flush_clear(t) \/ clear_buffer_body(t) \/ release(t)

\* fair scheduling: a thread that can take a step takes one, and a thread
\* waiting for the lock gets it when it is free again and again
Fairness == \A t \in Threads : WF_vars(Step(t)) /\ SF_vars(acquire(t))

SpecThreadsFair == Init /\ [][NextThreads]_vars /\ Fairness

\* the handler instance i holds is attached to no logger: for an instance
\* that made its own handler, the state __exit__ leaves
Released(i) ==
    /\ inst[i].made
    /\ \A n \in LoggerNames : \A k \in DOMAIN loggers[n].handlers :
          loggers[n].handlers[k].id # inst[i]._handler

\* SpecClosed: instance A is built once, used and closed; instance B, on the
\* same logger name and path, is built after the close of A; A is used again
NextClosed ==
    \/ \E b \in {0, MaxBuf} :
          /\ ~inst["A"].made
          /\ __init__("A", "t.log", "json", DefaultMaxBytes, DefaultBackupCount, b, "INFO", "shared")
    \/ /\ Released("A")
       /\ __init__("B", "/cwd/t.log", "json", DefaultMaxBytes, DefaultBackupCount, 0, "INFO", "shared")
    \/ \E i \in Insts, l \in LogLevelArgs : log(i, TxnSafe, l, 5)
    \/ flush("A")
    \/ query("A", "all")
    \/ \E f \in {"json", "CSV"} : export("A", f)
    \/ __exit__("A", None)

SpecClosed == Init /\ [][NextClosed]_vars

\* SpecStats: one instance; count, sum_field and avg_field
NextStats ==
    \/ \E f \in {"json", "text"}, b \in {0, MaxBuf} :
          __init__("A", "t.log", f, DefaultMaxBytes, DefaultBackupCount, b, "INFO", None)
    \/ \E t \in {TxnSafe, TxnNumStr, TxnTuple, TxnIntKey} : log("A", t, "INFO", 5)
    \/ \E q \in ConstantPredicates \cup {None} : count("A", q)
    \/ \E f \in FieldArgs : sum_field("A", f)
    \/ \E f \in FieldArgs : avg_field("A", f)

SpecStats == Init /\ [][NextStats]_vars

(***************************************************************************)
(* Vocabulary of the properties.                                           *)
(***************************************************************************)
Path(i) == abspath(inst[i].log_file)

\* the rotating-file sinks of instance i's destination attached to its logger
FileSinks(i) == Matches(loggers[inst[i].name].handlers, Path(i))

Attached(i) == FileSinks(i) # <<>>

\* the severity gate in force: the logger's threshold and the file sink's
Gate(i, entry) ==
    LET lvl == getattr_logging(entry.level, LevelNo("INFO"))
    IN /\ lvl >= EffectiveLevel(loggers[inst[i].name])
       /\ lvl >= Head(FileSinks(i)).level
       /\ ~Head(FileSinks(i)).faulty
       /\ ~disk.unlinked[Head(FileSinks(i)).id].is

\* the lines instance i's file sink gains when the entries are emitted in order
Persisted(i, entries) ==
    LET passed == SelectSeq(entries, LAMBDA e : Gate(i, e))
    IN [k \in 1..Len(passed) |-> _format_entry(inst[i].fmt, passed[k])]

\* the entry built by the latest accepted log() call
LastEntry ==
    [timestamp |-> Len(logged'), us |-> logged'[Len(logged')].us,
     level |-> upper(logged'[Len(logged')].level),
     transaction |-> logged'[Len(logged')].transaction]

\* a step that is a call of the method on instance i returning normally
LogStep(i) == last'.op = "log" /\ last'.i = i /\ last'.exc = "none" /\ Len(logged') = Len(logged) + 1
FlushStep(i) == last'.op = "flush" /\ last'.i = i
ClearStep(i) == last'.op = "clear_buffer" /\ last'.i = i
QueryStep(i) == last'.op = "query" /\ last'.i = i
ExitStep(i) == last'.op = "__exit__" /\ last'.i = i

Range(seq) == {seq[k] : k \in 1..Len(seq)}

\* the console-mirror sinks attached to instance i's logger
Consoles(i) == SelectSeq(loggers[inst[i].name].handlers, LAMBDA h : h.kind = "console")

\* os.path.exists(p): RotatingFileHandler opens its file when it is
\* constructed (lines 91-93)
FileExists(p) == p \notin disk.absent

\* timestamps of the lines of every file, and of the entries of every buffer
InFiles == {l.timestamp : l \in UNION {Range(files[p]) : p \in AbsPaths}}
InBuffers == {e.timestamp : e \in UNION {Range(inst[i]._buffer) : i \in Insts}}

(***************************************************************************)
(* C1: with buffer_size = n > 0, a log() that leaves fewer than n entries  *)
(* buffered appends its entry to the buffer and writes nothing to the      *)
(* file; the log() that makes the buffer reach n flushes inside the call:  *)
(* the buffer is empty when it returns and the file sink has gained, in    *)
(* order, the lines of the n entries (those that pass the severity gate,   *)
(* while the sink is attached).  So the buffer is always shorter than n.   *)
(***************************************************************************)
C1_BufferBelowThreshold ==
    \A i \in Insts : inst[i].buffer_size > 0 => Len(inst[i]._buffer) < inst[i].buffer_size

C1_LogStep ==
    \A i \in Insts : (LogStep(i) /\ inst[i].buffer_size > 0) =>
        LET buf == Append(inst[i]._buffer, LastEntry)
        IN IF Len(buf) < inst[i].buffer_size
           THEN inst'[i]._buffer = buf /\ files' = files
           ELSE /\ inst'[i]._buffer = <<>>
                /\ Attached(i) => files'[Path(i)] = files[Path(i)] \o Persisted(i, buf)

C1_BufferThreshold == []C1_BufferBelowThreshold /\ [][C1_LogStep]_vars

C1_Witness ==
    \E i \in Insts :
        /\ last.op = "log" /\ last.i = i
        /\ inst[i].buffer_size >= 2
        /\ Len(logged) = inst[i].buffer_size
        /\ inst[i]._buffer = <<>>
        /\ Len(files[Path(i)]) = inst[i].buffer_size

(***************************************************************************)
(* C2: with buffer_size = 0 the buffer is empty in every state, and a      *)
(* log() whose entry passes the severity gate of the attached file sink    *)
(* has, when it returns, added the entry's line as one new last line of    *)
(* the file.                                                               *)
(***************************************************************************)
C2_NeverBuffered ==
    \A i \in Insts : inst[i].buffer_size = 0 => inst[i]._buffer = <<>>

C2_LogStep ==
    \A i \in Insts :
        (LogStep(i) /\ inst[i].buffer_size = 0 /\ Attached(i) /\ Gate(i, LastEntry)) =>
            files'[Path(i)] = Append(files[Path(i)], _format_entry(inst[i].fmt, LastEntry))

C2_Unbuffered == []C2_NeverBuffered /\ [][C2_LogStep]_vars

C2_Witness ==
    \E i \in Insts :
        /\ last.op = "log" /\ last.i = i
        /\ inst[i].buffer_size = 0
        /\ Len(logged) = 2
        /\ Len(files[Path(i)]) = 2
        /\ files[Path(i)][2].timestamp = 2

(***************************************************************************)
(* C3: flush() leaves the buffer empty and the attached file sink gains    *)
(* the lines of the buffered entries (those passing the severity gate) in  *)
(* the order they were logged; on an empty buffer flush() changes neither  *)
(* the files nor the buffer nor the sinks.                                 *)
(***************************************************************************)
C3_FlushStep ==
    \A i \in Insts : FlushStep(i) =>
        /\ inst'[i]._buffer = <<>>
        /\ Attached(i) => files'[Path(i)] = files[Path(i)] \o Persisted(i, inst[i]._buffer)
        /\ inst[i]._buffer = <<>> =>
              (files' = files /\ inst' = inst /\ loggers' = loggers /\ stderr' = stderr)

C3_FlushFifo == [][C3_FlushStep]_vars

C3_Witness ==
    \E i \in Insts :
        /\ last.op = "flush" /\ last.i = i
        /\ inst[i].buffer_size >= 3
        /\ inst[i]._buffer = <<>>
        /\ Len(logged) = 2
        /\ Len(files[Path(i)]) = 2
        /\ files[Path(i)][1].timestamp = 1
        /\ files[Path(i)][2].timestamp = 2

(***************************************************************************)
(* C4: query(predicate) flushes before it reads: when it returns the       *)
(* buffer is empty, and the result holds the decoded form of every line    *)
(* that was in the file and of every buffered entry that passes the gate   *)
(* of the attached sink, provided the predicate is true of it.             *)
(***************************************************************************)
C4_QueryStep ==
    \A i \in Insts : QueryStep(i) =>
        /\ inst'[i]._buffer = <<>>
        /\ \A l \in Range(files[Path(i)]) :
              Holds(last'.arg, Parse(inst[i].fmt, l)) => Parse(inst[i].fmt, l) \in Range(last'.ret)
        /\ Attached(i) =>
              \A l \in Range(Persisted(i, inst[i]._buffer)) :
                 Holds(last'.arg, Parse(inst[i].fmt, l)) => Parse(inst[i].fmt, l) \in Range(last'.ret)

C4_QueryReadsAll == [][C4_QueryStep]_vars

C4_Witness ==
    \E i \in Insts :
        /\ last.op = "query" /\ last.i = i /\ last.arg = "all"
        /\ inst[i].buffer_size >= 3
        /\ Len(logged) = 2
        /\ Len(last.ret) = 2
        /\ inst[i]._buffer = <<>>

(***************************************************************************)
(* C5: round trip.  On a fresh destination, log(T) with a format-safe T,   *)
(* flush() and query(match-all) give exactly one entry.  As claimed, for   *)
(* either line format its transaction equals T (C5_RoundTripAnyFormat).    *)
(* As the code has it: in the json format its transaction equals T, in     *)
(* the text format the entry is {"raw": line}, the line holding str(T),    *)
(* and has no transaction (C5_RoundTrip).                                  *)
(***************************************************************************)
\* every value of T is of a type json.loads gives back
FormatSafe(T) == \A k \in DOMAIN T : T[k].t \in {"int", "str", "list"}

\* query(match-all) returns on a file that holds the line of the only log()
RoundTripStep(i) ==
    /\ QueryStep(i) /\ last'.arg = "all"
    /\ Len(logged') = 1 /\ logged'[1].i = i
    /\ FormatSafe(logged'[1].transaction)
    /\ Len(files'[Path(i)]) = 1

C5_AnyFormatStep ==
    \A i \in Insts : RoundTripStep(i) =>
        /\ Len(last'.ret) = 1
        /\ "transaction" \in DOMAIN last'.ret[1]
        /\ last'.ret[1].transaction = logged'[1].transaction

C5_RoundTripAnyFormat == [][C5_AnyFormatStep]_vars

C5_Step ==
    \A i \in Insts : RoundTripStep(i) =>
        /\ Len(last'.ret) = 1
        /\ IF inst[i].fmt = "json"
           THEN /\ "transaction" \in DOMAIN last'.ret[1]
                /\ last'.ret[1].transaction = logged'[1].transaction
           ELSE /\ DOMAIN last'.ret[1] = {"raw"}
                /\ last'.ret[1].raw.repr = logged'[1].transaction

C5_RoundTrip == [][C5_Step]_vars

C5_Witness ==
    \E i \in Insts :
        /\ last.op = "query" /\ last.i = i /\ last.arg = "all"
        /\ inst[i].fmt = "json"
        /\ inst[i].buffer_size >= 2
        /\ Len(logged) = 1
        /\ Len(last.ret) = 1
        /\ last.ret[1].transaction = TxnSafe

(***************************************************************************)
(* C6: clear_buffer() empties the buffer and changes neither the files nor *)
(* the sinks nor what was written to the console; a buffered entry is not  *)
(* in any file, and an entry that is neither buffered nor in a file (so a  *)
(* discarded one) is in no file after any later call.                      *)
(***************************************************************************)
C6_ClearStep ==
    \A i \in Insts : ClearStep(i) =>
        /\ inst'[i]._buffer = <<>>
        /\ files' = files /\ loggers' = loggers /\ stderr' = stderr

C6_BufferedNotInFile == InBuffers \cap InFiles = {}

C6_GoneStaysGone ==
    \A ts \in 1..Len(logged) : (ts \notin InBuffers /\ ts \notin InFiles) => ts \notin InFiles'

C6_ClearDiscards ==
    []C6_BufferedNotInFile /\ [][C6_ClearStep]_vars /\ [][C6_GoneStaysGone]_vars

\* a flush after a clear_buffer that discarded an entry the file sink would
\* have written: the file is still empty
C6_Witness ==
    \E i \in Insts :
        /\ last.op = "flush" /\ last.i = i
        /\ inst[i].buffer_size >= 2
        /\ Len(logged) = 1 /\ logged[1].level = "error"
        /\ Attached(i)
        /\ inst[i]._buffer = <<>>
        /\ files[Path(i)] = <<>>

(***************************************************************************)
(* C7: __exit__ flushes and then detaches every sink of the instance's     *)
(* logger: when it returns the buffer is empty, the attached file sink has *)
(* gained the lines of the buffered entries (those passing the gate), the  *)
(* logger has no handler left, and the exception of the with-block, when   *)
(* there is one, leaves the call.                                          *)
(***************************************************************************)
C7_ExitStep ==
    \A i \in Insts : ExitStep(i) =>
        /\ inst'[i]._buffer = <<>>
        /\ Attached(i) => files'[Path(i)] = files[Path(i)] \o Persisted(i, inst[i]._buffer)
        /\ loggers'[inst[i].name].handlers = <<>>
        /\ \A e \in ExcArgs \ {None} : __exit__(i, e) => last'.exc = e

C7_CloseFlushes == [][C7_ExitStep]_vars

C7_Witness ==
    \E i \in Insts :
        /\ last.op = "__exit__" /\ last.i = i /\ last.exc = "KeyError"
        /\ ~last.again
        /\ inst[i].buffer_size >= 3
        /\ Len(logged) = 2
        /\ inst[i]._buffer = <<>>
        /\ Len(files[Path(i)]) = 2
        /\ loggers[inst[i].name].handlers = <<>>

(***************************************************************************)
(* C8: close is idempotent: an __exit__ that directly follows an __exit__  *)
(* of the same instance raises nothing of its own and changes neither the  *)
(* files nor the buffer nor the handlers of any logger.                    *)
(***************************************************************************)
C8_SecondExitStep ==
    \A i \in Insts : (ExitStep(i) /\ last'.again) =>
        /\ files' = files /\ stderr' = stderr
        /\ inst' = inst
        /\ loggers' = loggers
        /\ __exit__(i, None) => last'.exc = "none"

C8_CloseIdempotent == [][C8_SecondExitStep]_vars

C8_Witness ==
    \E i \in Insts :
        /\ last.op = "__exit__" /\ last.i = i /\ last.again /\ last.exc = "none"
        /\ inst[i].buffer_size >= 2
        /\ Len(files[Path(i)]) >= 1
        /\ loggers[inst[i].name].handlers = <<>>

(***************************************************************************)
(* C9: in every state each absolute destination path has at most one       *)
(* rotating-file handler attached to a logger of the process, whatever     *)
(* the logger names of the instances.                                      *)
(***************************************************************************)
AllHandlers == UNION {Range(loggers[n].handlers) : n \in LoggerNames}

FileSinksOn(p) == {h \in AllHandlers : h.kind = "file" /\ h.path = p}

C9_OneFileSinkPerPath == \A p \in AbsPaths : Cardinality(FileSinksOn(p)) <= 1

(***************************************************************************)
(* C10: once two instances are constructed on the same absolute path, a    *)
(* log() on either of them never adds more than one line to the file, and  *)
(* adds exactly the line of its entry when the instance is unbuffered and  *)
(* the entry passes the severity gate of the attached file sink.           *)
(***************************************************************************)
SamePath == inst["A"].made /\ inst["B"].made /\ Path("A") = Path("B")

C10_LogStep ==
    \A i \in Insts : (LogStep(i) /\ SamePath) =>
        /\ Len(files'[Path(i)]) <= Len(files[Path(i)]) + 1
        /\ (inst[i].buffer_size = 0 /\ Attached(i) /\ Gate(i, LastEntry)) =>
              files'[Path(i)] = Append(files[Path(i)], _format_entry(inst[i].fmt, LastEntry))

C10_OneLinePerLog == [][C10_LogStep]_vars

C10_Witness ==
    /\ last.op = "log"
    /\ SamePath
    /\ inst["A"].name = inst["B"].name
    /\ Len(logged) = 2 /\ logged[1].i # logged[2].i
    /\ Len(files[Path("A")]) = 2

(***************************************************************************)
(* C11: log() given a payload that is not a dict raises TypeError and has  *)
(* no effect: the buffer, the files, the handlers and the console output   *)
(* are as before the call.                                                 *)
(***************************************************************************)
C11_NonDictStep ==
    \A i \in Insts :
        /\ last'.op = "log" =>
              \A l \in LogLevelArgs, us \in MicrosecondArgs :
                  log(i, NotADict, l, us) => last'.exc = "TypeError"
        /\ (last'.op = "log" /\ last'.i = i /\ last'.exc = "TypeError") =>
              (inst' = inst /\ files' = files /\ loggers' = loggers /\ stderr' = stderr
               /\ logged' = logged)

C11_NonDictRejected == [][C11_NonDictStep]_vars

\* the rejected call came when the buffer held an entry and the file two lines
C11_Witness ==
    \E i \in Insts :
        /\ last.op = "log" /\ last.i = i /\ last.exc = "TypeError"
        /\ inst[i].buffer_size = 2
        /\ Len(inst[i]._buffer) = 1
        /\ Len(files[Path(i)]) = 2

(***************************************************************************)
(* C12: log() given a dict with a key that is not a string raises          *)
(* TypeError and neither buffers nor writes the entry.                     *)
(***************************************************************************)
C12_NonStringKeyStep ==
    \A i \in Insts, l \in LogLevelArgs, t \in KeyedDicts, us \in MicrosecondArgs :
        log(i, t, l, us) => (last'.exc = "TypeError" /\ inst' = inst /\ files' = files)

C12_NonStringKeyRejected == [][C12_NonStringKeyStep]_vars

(***************************************************************************)
(* C13: in the json format serialization never fails the call: a log() of  *)
(* a payload that passed the dict check raises nothing, and every entry    *)
(* that is emitted, by an unbuffered log(), by the flush inside log() or   *)
(* by flush(), adds one line to the file (when it passes the severity gate *)
(* of the attached file sink).                                             *)
(***************************************************************************)
C13_Step ==
    \A i \in Insts : (inst[i].made /\ inst[i].fmt = "json") =>
        /\ (last'.op = "log" /\ last'.i = i /\ logged' # logged) => last'.exc = "none"
        /\ (LogStep(i) /\ inst[i].buffer_size = 0 /\ Attached(i) /\ Gate(i, LastEntry)) =>
              Len(files'[Path(i)]) = Len(files[Path(i)]) + 1
        /\ (FlushStep(i) /\ Attached(i)) =>
              Len(files'[Path(i)]) =
                 Len(files[Path(i)]) + Len(SelectSeq(inst[i]._buffer, LAMBDA e : Gate(i, e)))

C13_SerializationNeverFails == [][C13_Step]_vars

(***************************************************************************)
(* C14: construction with a format other than "json" and "text" raises     *)
(* ValueError; no instance is made, no handler is attached to any logger,  *)
(* no file is created or written.  So every instance has a known format.   *)
(***************************************************************************)
C14_FormatKnown == \A i \in Insts : inst[i].made => inst[i].fmt \in {"json", "text"}

C14_BadFormatStep ==
    last'.op = "__init__" =>
        \A i \in Insts, p \in LogFileArgs, f \in FmtArgs \ {"json", "text"}, b \in 0..MaxBuf,
           l \in LevelArgs, n \in LoggerNameArgs :
            __init__(i, p, f, DefaultMaxBytes, DefaultBackupCount, b, l, n) =>
                /\ last'.exc = "ValueError"
                /\ inst' = inst /\ loggers' = loggers /\ files' = files
                /\ \A q \in AbsPaths : FileExists(q)' = FileExists(q)

C14_BadFormatRejected == []C14_FormatKnown /\ [][C14_BadFormatStep]_vars

C14_Witness ==
    /\ last.op = "__init__" /\ last.i = "A" /\ last.exc = "ValueError"
    /\ ~inst["A"].made
    /\ \A n \in LoggerNames : loggers[n].handlers = <<>>
    /\ \A q \in AbsPaths : ~FileExists(q) /\ files[q] = <<>>

(***************************************************************************)
(* C15: construction with a severity outside the known set raises          *)
(* ValueError and makes no instance.                                       *)
(***************************************************************************)
C15_UnknownLevelStep ==
    \A i \in Insts, p \in LogFileArgs, f \in {"json", "text"}, b \in 0..MaxBuf,
       l \in LevelArgs, n \in LoggerNameArgs :
        (upper(l) \notin LevelNames /\ __init__(i, p, f, DefaultMaxBytes, DefaultBackupCount, b, l, n)) =>
            (last'.exc = "ValueError" /\ ~inst'[i].made)

C15_UnknownLevelRejected == [][C15_UnknownLevelStep]_vars

(***************************************************************************)
(* C16: set_level(level) with a level outside the known set raises         *)
(* ValueError and leaves the level of the logger and of every attached     *)
(* handler as it was; with a known level it sets the level of the logger   *)
(* and of every attached handler, and attaches or detaches none.           *)
(***************************************************************************)
C16_SetLevelStep ==
    \A i \in Insts, l \in LevelArgs : (last'.op = "set_level" /\ set_level(i, l)) =>
        LET before == loggers[inst[i].name]
            after == loggers'[inst[i].name]
        IN IF upper(l) \in LevelNames
           THEN /\ last'.exc = "none"
                /\ after.level = LevelNo(upper(l))
                /\ Len(after.handlers) = Len(before.handlers)
                /\ \A k \in 1..Len(before.handlers) :
                      /\ after.handlers[k].level = LevelNo(upper(l))
                      /\ after.handlers[k].kind = before.handlers[k].kind
                      /\ after.handlers[k].path = before.handlers[k].path
           ELSE /\ last'.exc = "ValueError"
                /\ loggers' = loggers

C16_SetLevelValidates == [][C16_SetLevelStep]_vars

\* an unknown level refused after a known one had reached the file sink
C16_Witness ==
    \E i \in Insts :
        /\ last.op = "set_level" /\ last.i = i /\ last.exc = "ValueError"
        /\ Attached(i)
        /\ Head(FileSinks(i)).level = LevelNo("ERROR")
        /\ loggers[inst[i].name].level = LevelNo("ERROR")

(***************************************************************************)
(* C17: an instance never has more than one console sink attached;         *)
(* enable_console(True) when one is attached and enable_console(False)     *)
(* when none is attached change no handler list.                           *)
(***************************************************************************)
C17_AtMostOneConsole == \A i \in Insts : inst[i].made => Len(Consoles(i)) <= 1

C17_Step ==
    \A i \in Insts, l \in {None, "error"} :
        /\ (enable_console(i, TRUE, l) /\ Consoles(i) # <<>>) => loggers' = loggers
        /\ (enable_console(i, FALSE, l) /\ Consoles(i) = <<>>) => loggers' = loggers

C17_ConsoleIdempotent == []C17_AtMostOneConsole /\ [][C17_Step]_vars

(***************************************************************************)
(* C18: enable_console(True, level) on an instance whose file sink is      *)
(* attached and that has no console sink attaches exactly one console      *)
(* sink, with the given level when there is one, and leaves the file sink  *)
(* as it was.                                                              *)
(***************************************************************************)
C18_Step ==
    \A i \in Insts, l \in {None, "error"} :
        (enable_console(i, TRUE, l) /\ Attached(i) /\ Consoles(i) = <<>>) =>
            /\ Len(Consoles(i)') = 1
            /\ l # None => Head(Consoles(i)').level = getattr_logging(upper(l), LevelNo("INFO"))
            /\ FileSinks(i)' = FileSinks(i)

C18_ConsoleAttached == [][C18_Step]_vars

(***************************************************************************)
(* C19: enable_console(False) leaves the file sink attached: the file      *)
(* sinks of the instance's logger are the same after the call.             *)
(***************************************************************************)
C19_Step ==
    \A i \in Insts, l \in {None, "error"} :
        enable_console(i, FALSE, l) => FileSinks(i)' = FileSinks(i)

C19_FileSinkKept == [][C19_Step]_vars

(***************************************************************************)
(* C20: query never raises because of its predicate: the result holds,     *)
(* once each, exactly the entries of the file on which the predicate       *)
(* returns true; an entry on which it raises or returns false is left      *)
(* out, and with the always-false predicate the result is empty.           *)
(***************************************************************************)
C20_QueryStep ==
    \A i \in Insts : QueryStep(i) =>
        LET parsed == ParseAll(inst[i].fmt, files'[Path(i)])
            good == {k \in 1..Len(parsed) : Apply(last'.arg, parsed[k]) = "true"}
        IN /\ last'.exc = "none"
           /\ last'.arg = "none" => last'.ret = <<>>
           /\ Range(last'.ret) = {parsed[k] : k \in good}
           /\ Len(last'.ret) = Cardinality(good)

C20_PredicateRobust == [][C20_QueryStep]_vars

\* the predicate raised on the first entry, was true of the second and false
\* of the third
C20_Witness ==
    \E i \in Insts :
        /\ last.op = "query" /\ last.i = i /\ last.arg = "ok_info"
        /\ Len(files[Path(i)]) = 3
        /\ LET parsed == ParseAll(inst[i].fmt, files[Path(i)])
           IN /\ Apply("ok_info", parsed[1]) = "raise"
              /\ Apply("ok_info", parsed[2]) = "true"
              /\ Apply("ok_info", parsed[3]) = "false"
        /\ Len(last.ret) = 1
        /\ last.ret[1].timestamp = 2

(***************************************************************************)
(* C21: when the log file does not exist, query returns the empty list     *)
(* and export, in the json and in the csv format, writes an output with    *)
(* no record; neither raises.                                              *)
(***************************************************************************)
ExportStep(i) == last'.op = "export" /\ last'.i = i /\ last'.exc = "none"

C21_MissingStep ==
    \A i \in Insts : (inst[i].made /\ Path(i) \in disk'.absent) =>
        /\ QueryStep(i) => (last'.exc = "none" /\ last'.ret = <<>>)
        /\ (last'.op = "export" /\ last'.i = i /\ lower(last'.arg) \in {"json", "csv"}) =>
              /\ last'.exc = "none"
              /\ disk'.exported.fmt = lower(last'.arg)
              /\ disk'.exported.fmt = "json" => disk'.exported.lines = <<>>
              /\ disk'.exported.fmt = "csv" => disk'.exported.rows = <<>>

C21_MissingFileEmpty == [][C21_MissingStep]_vars

\* a csv export after the file was removed under the open handler and an
\* entry was written to the unlinked file
C21_Witness ==
    /\ last.op = "export" /\ last.i = "A" /\ last.arg = "CSV" /\ last.exc = "none"
    /\ Path("A") \in disk.absent
    /\ Len(disk.unlinked["A"].lines) >= 1
    /\ disk.exported.fmt = "csv" /\ disk.exported.rows = <<>>

(***************************************************************************)
(* C22: export flushes first and writes one record per entry of the file,  *)
(* in file order: N lines in the json format, N rows in the csv format,    *)
(* N being the number of entries query(match-all) returns at that time.    *)
(***************************************************************************)
C22_ExportStep ==
    \A i \in Insts : ExportStep(i) =>
        LET r == ReadFile([files |-> files', stderr |-> stderr', disk |-> disk'], Path(i))
            entries == IF r.found THEN Scan(inst[i].fmt, r.lines, "all") ELSE <<>>
            out == disk'.exported
        IN /\ inst'[i]._buffer = <<>>
           /\ Attached(i) => files'[Path(i)] = files[Path(i)] \o Persisted(i, inst[i]._buffer)
           /\ out.fmt = "json" =>
                 /\ Len(out.lines) = Len(entries)
                 /\ \A k \in 1..Len(entries) :
                       IF inst[i].fmt = "json" THEN out.lines[k] = r.lines[k]
                       ELSE out.lines[k].raw = r.lines[k]
           /\ out.fmt = "csv" =>
                 /\ Len(out.rows) = Len(entries)
                 /\ \A k \in 1..Len(entries) :
                       IF inst[i].fmt = "json" THEN out.rows[k]["_timestamp"] = entries[k].timestamp
                       ELSE out.rows[k].raw = entries[k]

C22_ExportComplete == [][C22_ExportStep]_vars

\* a csv export that flushed two buffered entries and wrote two rows
C22_Witness ==
    /\ last.op = "export" /\ last.i = "A" /\ last.arg = "CSV" /\ last.exc = "none"
    /\ inst["A"].buffer_size >= 3
    /\ Len(logged) = 2
    /\ Len(files[Path("A")]) = 2
    /\ Len(disk.exported.rows) = 2

(***************************************************************************)
(* C23: the header of a csv export.  As claimed, it is always the sorted   *)
(* union of the keys of the transactions of the entries plus _timestamp    *)
(* and _level (C23_HeaderAlways).  As the code has it, it is the sorted    *)
(* union of the columns of the rows: the transaction keys plus _timestamp  *)
(* and _level for an entry decoded from a json line, "raw" alone for an    *)
(* entry kept as a raw line (every entry of a text-format log), and it is  *)
(* empty when there is no entry (C23_Header).                              *)
(***************************************************************************)
CsvStep(i) == ExportStep(i) /\ disk'.exported.fmt = "csv"

\* the keys of the transactions written on the lines
TxnKeys(lines) ==
    UNION {IF lines[k].f = "json" THEN DOMAIN lines[k].transaction ELSE DOMAIN lines[k].repr :
           k \in 1..Len(lines)}

Rank(key) == CHOOSE j \in 1..Len(SortedKeys) : SortedKeys[j] = key

C23_AlwaysStep ==
    \A i \in Insts : CsvStep(i) =>
        Range(disk'.exported.header) = TxnKeys(files'[Path(i)]) \cup {"_timestamp", "_level"}

C23_HeaderAlways == [][C23_AlwaysStep]_vars

C23_Step ==
    \A i \in Insts : CsvStep(i) =>
        LET lines == files'[Path(i)]
            header == disk'.exported.header
        IN /\ Range(header) =
                 IF lines = <<>> THEN {}
                 ELSE IF inst[i].fmt = "json" THEN TxnKeys(lines) \cup {"_timestamp", "_level"}
                 ELSE {"raw"}
           /\ \A a, b \in 1..Len(header) : a < b => Rank(header[a]) < Rank(header[b])
           /\ \A k \in 1..Len(disk'.exported.rows) :
                 DOMAIN disk'.exported.rows[k] = Range(header)

C23_Header == [][C23_Step]_vars

C23_Witness ==
    /\ last.op = "export" /\ last.i = "A" /\ last.exc = "none"
    /\ inst["A"].fmt = "json"
    /\ disk.exported.fmt = "csv"
    /\ disk.exported.header = <<"1", "_level", "_timestamp", "id", "status">>
    /\ Len(disk.exported.rows) = 2

(***************************************************************************)
(* C24: sum_field(f) returns the sum of transaction[f] over the lines of   *)
(* the active file on which f is present and holds a number or a numeric   *)
(* string, 0 when there is none; avg_field(f) returns that sum divided by  *)
(* the number of those lines, None when there is none; neither raises.     *)
(***************************************************************************)
\* the lines of instance i's file that carry a numeric value for the field
Numeric(i, lines, field) ==
    {k \in 1..Len(lines) :
        /\ inst[i].fmt = "json" /\ lines[k].f = "json"
        /\ field \in DOMAIN lines[k].transaction
        /\ \/ lines[k].transaction[field].j = "number"
           \/ lines[k].transaction[field].j = "string"
              /\ lines[k].transaction[field].v \in {"7", "5"}}

RECURSIVE Total(_, _, _)
Total(lines, field, S) ==
    IF S = {} THEN 0
    ELSE LET k == CHOOSE j \in S : TRUE
         IN Num(lines[k].transaction[field].v) + Total(lines, field, S \ {k})

C24_StatStep ==
    \A i \in Insts :
        LET lines == files'[Path(i)]
            S == Numeric(i, lines, last'.arg)
        IN /\ (last'.op = "sum_field" /\ last'.i = i) =>
                 (last'.exc = "none" /\ last'.ret = Total(lines, last'.arg, S))
           /\ (last'.op = "avg_field" /\ last'.i = i) =>
                 /\ last'.exc = "none"
                 /\ last'.ret.none = (S = {})
                 /\ S # {} => /\ last'.ret.num = Total(lines, last'.arg, S)
                              /\ last'.ret.den = Cardinality(S)

C24_SumAvg == [][C24_StatStep]_vars

\* 7, "5" and a list logged under "id": the average is 12 / 2
C24_Witness ==
    /\ last.op = "avg_field" /\ last.i = "A" /\ last.arg = "id"
    /\ Len(files[Path("A")]) = 3
    /\ Cardinality(Numeric("A", files[Path("A")], "id")) = 2
    /\ last.ret = [none |-> FALSE, num |-> 12, den |-> 2]

(***************************************************************************)
(* C26: the active file never holds more than max_bytes: for every file    *)
(* sink whose max_bytes is at least the size of a line, whatever its       *)
(* backup count, the size of the active file is at most max_bytes.         *)
(* (Violated: with backup_count = 0 a rollover opens the same file again   *)
(* in append mode and the file keeps growing.)                             *)
(***************************************************************************)
C26_SizeBounded ==
    \A p \in AbsPaths : \A h \in FileSinksOn(p) :
        (~disk.unlinked[h.id].is /\ \A k \in DOMAIN files[p] : LineLen(files[p][k]) <= h.maxBytes) =>
            Size(files[p]) <= h.maxBytes

(***************************************************************************)
(* C27: the backups of a file sink are the files .N with 1 <= N <=         *)
(* backup_count, without a gap, each older than the one before it and      *)
(* than the active file; a rotation moves every backup up by one, makes    *)
(* the old active file backup .1, and the lines of the backup that was     *)
(* at .backup_count are in no file afterwards while every other line is    *)
(* kept.                                                                   *)
(***************************************************************************)
Backups(p) == disk.backups[p]

\* the timestamps of the lines of a file
Stamps(lines) == {l.timestamp : l \in Range(lines)}

\* the timestamps of the lines held by the active file and the backups of p
OnDisk(p) == Stamps(files[p]) \cup UNION {Stamps(Backups(p)[k].lines) : k \in DOMAIN Backups(p)}

C27_Bounded ==
    \A p \in AbsPaths : \A h \in FileSinksOn(p) : \A k \in DOMAIN Backups(p) :
        Backups(p)[k].exists => k <= h.backupCount

C27_Ordered ==
    \A p \in AbsPaths : \A k \in DOMAIN Backups(p) :
        /\ (k > 1 /\ Backups(p)[k].exists) => Backups(p)[k - 1].exists
        /\ \A a \in Stamps(Backups(p)[k].lines) :
              /\ \A b \in Stamps(files[p]) : a < b
              /\ \A j \in 1..(k - 1) : \A b \in Stamps(Backups(p)[j].lines) : a < b

\* an unbuffered log() that rotates the file of sink h once
C27_RotationStep ==
    \A i \in Insts :
        (LogStep(i) /\ inst[i].buffer_size = 0 /\ Attached(i)
            /\ Backups(Path(i))' # Backups(Path(i))) =>
        LET p == Path(i)
            bc == Head(FileSinks(i)).backupCount
        IN /\ Backups(p)'[1] = [exists |-> TRUE, lines |-> files[p]]
           /\ \A k \in 1..(bc - 1) : Backups(p)[k].exists => Backups(p)'[k + 1] = Backups(p)[k]
           /\ Stamps(files'[p]) = {Len(logged')}
           /\ OnDisk(p)' = (OnDisk(p) \cup {Len(logged')}) \ Stamps(Backups(p)[bc].lines)

C27_Backups == [](C27_Bounded /\ C27_Ordered) /\ [][C27_RotationStep]_vars

\* two rotations with backup_count = 2: the first line is in .2, the second
\* in .1, the third in the active file
C27_Witness ==
    /\ inst["A"].made /\ Attached("A")
    /\ Head(FileSinks("A")).backupCount = 2
    /\ Stamps(Backups(Path("A"))[2].lines) = {1}
    /\ Stamps(Backups(Path("A"))[1].lines) = {2}
    /\ Stamps(files[Path("A")]) = {3}

(***************************************************************************)
(* C28: query, count, sum_field, avg_field and export read the active file *)
(* only: what they return or write is computed from the lines of the       *)
(* active file as the call leaves it, and holds no entry of a backup.      *)
(***************************************************************************)
C28_ReadStep ==
    \A i \in Insts :
        LET lines == files'[Path(i)]
            active == Stamps(lines)
            S == Numeric(i, lines, last'.arg)
        IN /\ QueryStep(i) =>
                 /\ {last'.ret[k].timestamp : k \in DOMAIN last'.ret} \subseteq active
                 /\ last'.arg = "all" => Len(last'.ret) = Len(lines)
           /\ (last'.op = "count" /\ last'.i = i) => last'.ret = Len(lines)
           /\ (last'.op = "sum_field" /\ last'.i = i) => last'.ret = Total(lines, last'.arg, S)
           /\ (last'.op = "avg_field" /\ last'.i = i) =>
                 /\ last'.ret.none = (S = {})
                 /\ last'.ret.den = Cardinality(S)
           /\ (ExportStep(i) /\ disk'.exported.fmt = "json") =>
                 /\ Len(disk'.exported.lines) = Len(lines)
                 /\ Stamps(disk'.exported.lines) = active
           /\ (ExportStep(i) /\ disk'.exported.fmt = "csv") =>
                 /\ Len(disk'.exported.rows) = Len(lines)
                 /\ {r._timestamp : r \in Range(disk'.exported.rows)} = active

C28_ActiveFileOnly == [][C28_ReadStep]_vars

\* a match-all query after a rotation returns the entries written since
C28_Witness ==
    /\ last.op = "query" /\ last.i = "A" /\ last.arg = "all"
    /\ Backups(Path("A"))[1].exists
    /\ Stamps(Backups(Path("A"))[1].lines) # {}
    /\ last.ret # <<>>
    /\ Len(last.ret) < Len(logged)
    /\ \A k \in DOMAIN last.ret : \A a \in Stamps(Backups(Path("A"))[1].lines) :
          a < last.ret[k].timestamp

(***************************************************************************)
(* C29: a flush() whose buffer holds an entry that cannot be emitted (its  *)
(* formatting raises) returns normally with the buffer empty, and the file *)
(* gains, in the order they were logged, the lines of the other entries,   *)
(* those after the failed one included; an entry that is neither buffered  *)
(* nor in a file never reaches a file later.                               *)
(***************************************************************************)
Fails(i, e) == FormatRaises(inst[i].fmt, e)

C29_FlushStep ==
    \A i \in Insts :
        (FlushStep(i) /\ Attached(i) /\ \E k \in DOMAIN inst[i]._buffer : Fails(i, inst[i]._buffer[k])) =>
            LET good == SelectSeq(inst[i]._buffer, LAMBDA e : ~Fails(i, e) /\ Gate(i, e))
            IN /\ last'.exc = "none"
               /\ inst'[i]._buffer = <<>>
               /\ files'[Path(i)] =
                     files[Path(i)] \o [k \in 1..Len(good) |-> _format_entry(inst[i].fmt, good[k])]

C29_NoRetryStep ==
    \A k \in 1..Len(logged) : (k \notin InBuffers /\ k \notin InFiles) => k \notin InFiles'

C29_BestEffort == [][C29_FlushStep /\ C29_NoRetryStep]_vars

\* the first buffered entry has a tuple key, the second is written by flush()
C29_Witness ==
    /\ last.op = "flush" /\ last.i = "A" /\ last.exc = "none"
    /\ inst["A"].fmt = "json" /\ inst["A"]._buffer = <<>>
    /\ Len(logged) = 2
    /\ logged[1].transaction = TxnTupleKey
    /\ logged[2].transaction = TxnSafe
    /\ Stamps(files[Path("A")]) = {2}

(***************************************************************************)
(* C30: an __exit__ on a logger with a failing sink raises nothing of its  *)
(* own (it returns, or lets the exception of the with-block through), the  *)
(* buffer is empty, every sink that does not fail has received the         *)
(* buffered entries, the file of a failing sink is untouched, and the      *)
(* logger is left without sinks.                                           *)
(***************************************************************************)
FaultySinks(i) == SelectSeq(loggers[inst[i].name].handlers, LAMBDA h : h.faulty)

C30_ExitStep ==
    \A i \in Insts : (inst[i].made /\ ExitStep(i) /\ FaultySinks(i) # <<>>) =>
        LET hs == loggers[inst[i].name].handlers
            lines == [k \in DOMAIN inst[i]._buffer |-> _format_entry(inst[i].fmt, inst[i]._buffer[k])]
        IN /\ last'.exc \in {"none"} \cup (ExcArgs \ {None})
           /\ __exit__(i, None) => last'.exc = "none"
           /\ inst'[i]._buffer = <<>>
           /\ loggers'[inst[i].name].handlers = <<>>
           /\ \A k \in DOMAIN hs :
                 files'[hs[k].path] = IF hs[k].faulty THEN files[hs[k].path]
                                      ELSE files[hs[k].path] \o lines

\* the sink of t.log failed: the entry buffered by A reached u.log only, and
\* the close returned with no sink attached
C30_Witness ==
    /\ last.op = "__exit__" /\ last.i = "A" /\ last.exc = "none" /\ ~last.again
    /\ inst["A"].buffer_size > 0 /\ inst["B"].made
    /\ Len(logged) = 1 /\ logged[1].i = "A"
    /\ files["/cwd/t.log"] = <<>>
    /\ Stamps(files["/cwd/u.log"]) = {1}
    /\ \E k \in DOMAIN stderr : stderr[k].f = "logging error"
    /\ loggers["shared"].handlers = <<>>

C30_CloseSwallows == [][C30_ExitStep]_vars

(***************************************************************************)
(* C25: with log(), flush() and clear_buffer() running in several threads  *)
(* on one instance, a thread is inside a locked section only while it      *)
(* holds the instance lock, so at most one is; no entry is in the file     *)
(* twice; when no call is in progress no entry is both buffered and in the *)
(* file; and an entry that was logged leaves the program (the calls in     *)
(* progress, the buffer and the file) only in the step of clear_buffer()   *)
(* that empties the buffer.  So after the threads finish and a last        *)
(* flush() returns, each entry that clear_buffer() did not discard is in   *)
(* the file exactly once.                                                  *)
(***************************************************************************)
Locked == {"body", "reenter", "emit", "clear", "release"}

Inside(i) == {t \in Threads : pc[t].op # "idle" /\ pc[t].i = i /\ pc[t].at \in Locked}

\* the timestamps of the entries whose log() has not stored them yet
InFlight == {pc[t].entry.timestamp :
                t \in {u \in Threads : pc[u].op = "log" /\ pc[u].at \in {"acquire", "body"}}}

Held == InFlight \cup InBuffers \cup InFiles

C25_Exclusive ==
    \A i \in Insts : /\ Cardinality(Inside(i)) <= 1
                     /\ \A t \in Inside(i) : lock[i] = t

C25_WrittenOnce ==
    \A p \in AbsPaths : \A j, k \in DOMAIN files[p] :
        files[p][j].timestamp = files[p][k].timestamp => j = k

C25_Quiescent ==
    (\A t \in Threads : pc[t].op = "idle") =>
        /\ InBuffers \cap InFiles = {}
        /\ \A i \in Insts : lock[i] = None

C25_DiscardStep ==
    \A e \in Held : e \notin Held' =>
        \E t \in Threads : /\ pc[t].op = "clear_buffer" /\ pc[t].at = "body"
                           /\ pc'[t].at = "release"

C25_Serialized ==
    [](C25_Exclusive /\ C25_WrittenOnce /\ C25_Quiescent) /\ [][C25_DiscardStep]_vars

\* the entries 1 and 2 were logged by two threads and written in the order
\* 2, 1; entry 3 was discarded; the last flush() has returned
C25_Witness ==
    /\ \A t \in Threads : pc[t].op = "idle"
    /\ last.op = "flush"
    /\ Len(logged) = 3
    /\ inst["A"]._buffer = <<>>
    /\ Len(files[Path("A")]) = 2
    /\ files[Path("A")][1].timestamp = 2
    /\ files[Path("A")][2].timestamp = 1

(***************************************************************************)
(* C31: under fair scheduling every log(), flush() and clear_buffer() call *)
(* that has started returns; in particular a log() that has reached the    *)
(* buffer threshold and calls flush() while holding the lock returns.      *)
(***************************************************************************)
C31_Returns ==
    \A t \in Threads :
        /\ (pc[t].op # "idle") ~> (pc[t].op = "idle")
        /\ (pc[t].op = "log" /\ pc[t].at = "reenter") ~> (pc[t].op = "idle")

\* a log() that filled the buffer of size 2 has flushed it and returned
C31_Witness ==
    /\ \A t \in Threads : pc[t].op = "idle"
    /\ last.op = "log"
    /\ inst["A"].buffer_size = 2
    /\ Len(logged) = 2
    /\ inst["A"]._buffer = <<>>
    /\ Len(files[Path("A")]) = 2

(***************************************************************************)
(* C32: when two instances share one rotating-file sink (same logger name, *)
(* same absolute path), the close of one of them leaves the sink attached  *)
(* for the other, and an unbuffered log() of the other that passes the     *)
(* severity gate still adds its line to the file.                          *)
(* (Violated: __exit__ closes and removes every sink of the logger.)       *)
(***************************************************************************)
Sharing(i, j) ==
    /\ i # j /\ inst[i].made /\ inst[j].made
    /\ inst[i].name = inst[j].name /\ Path(i) = Path(j)
    /\ Attached(i)

C32_CloseStep ==
    \A i, j \in Insts : (Sharing(i, j) /\ ExitStep(i)) => Attached(j)'

C32_SharedSinkSurvives == [][C32_CloseStep]_vars

(***************************************************************************)
(* C33: with one producer and no rotation the lines of a file are in the   *)
(* order of the log() calls that made them, buffered or not, and query     *)
(* returns its matches in that order: of two entries in a result, the one  *)
(* logged first comes first.                                               *)
(***************************************************************************)
\* the position in the sequence of log() calls of a decoded entry
Ts(e) == IF "raw" \in DOMAIN e THEN e.raw.timestamp ELSE e.timestamp

C33_FileOrdered ==
    \A p \in AbsPaths : \A j, k \in DOMAIN files[p] :
        j < k => files[p][j].timestamp < files[p][k].timestamp

C33_QueryStep ==
    \A i \in Insts : QueryStep(i) =>
        \A j, k \in DOMAIN last'.ret : j < k => Ts(last'.ret[j]) < Ts(last'.ret[k])

C33_CallOrder == []C33_FileOrdered /\ [][C33_QueryStep]_vars

\* three entries logged through a buffer of size 2, returned in call order
C33_Witness ==
    /\ last.op = "query" /\ last.i = "A"
    /\ inst["A"].buffer_size = 2
    /\ Len(last.ret) = 3
    /\ \A k \in 1..3 : Ts(last.ret[k]) = k

(***************************************************************************)
(* C34: the severity gate is applied when an entry is emitted: a line      *)
(* reaches a file only in a step that starts with the logger's threshold   *)
(* at or below the level of its entry; a flush() removes every entry from  *)
(* the buffer, writes those that pass the gate in force at that moment and *)
(* drops the others without raising; an unbuffered log() below the         *)
(* threshold writes nothing and returns normally.                          *)
(***************************************************************************)
Severity(k) == getattr_logging(upper(logged'[k].level), LevelNo("INFO"))

C34_WriteStep ==
    files' # files =>
        \A k \in InFiles' \ InFiles :
            Severity(k) >= EffectiveLevel(loggers[inst[logged'[k].i].name])

C34_FlushStep ==
    \A i \in Insts : (FlushStep(i) /\ Attached(i)) =>
        /\ last'.exc = "none"
        /\ inst'[i]._buffer = <<>>
        /\ \A k \in DOMAIN inst[i]._buffer :
              LET e == inst[i]._buffer[k]
              IN (e.timestamp \in Stamps(files'[Path(i)])) <=> Gate(i, e)

C34_LogStep ==
    \A i \in Insts :
        (LogStep(i) /\ inst[i].buffer_size = 0 /\ Attached(i) /\ ~Gate(i, LastEntry)) =>
            (files' = files /\ last'.exc = "none")

C34_GateAtEmission == [][C34_WriteStep /\ C34_FlushStep /\ C34_LogStep]_vars

\* an INFO entry was buffered under the INFO threshold, the threshold was
\* raised to ERROR, and the flush dropped the entry
C34_Witness ==
    /\ last.op = "flush" /\ last.i = "A" /\ last.exc = "none"
    /\ Attached("A")
    /\ inst["A"].buffer_size > 0 /\ inst["A"]._buffer = <<>>
    /\ loggers[inst["A"].name].level = LevelNo("ERROR")
    /\ Len(logged) = 1 /\ logged[1].level = "INFO"
    /\ InFiles = {}

(***************************************************************************)
(* C35: once an instance is closed, every log(), flush(), query() and      *)
(* export() on it returns without raising and leaves its file as it was.   *)
(* (Violated: the closed instance keeps its logger; when a later instance  *)
(* with the same logger name attaches a sink to it, a log() on the closed  *)
(* instance is written to the file again.)                                 *)
(***************************************************************************)
C35_ClosedStep ==
    (Released("A") /\ last'.i = "A" /\ last'.op \in {"log", "flush", "query", "export"}) =>
        (last'.exc = "none" /\ files'[Path("A")] = files[Path("A")])

C35_ClosedNeverWrites == [][C35_ClosedStep]_vars

(***************************************************************************)
(* C36: when the close of a buffered instance and every log() call that    *)
(* started before the close returned have returned, the buffer is empty    *)
(* and the entry of each of those calls is in the file.                    *)
(* (Violated: __exit__ releases the lock between its flush and the close   *)
(* of the sinks; a log() that runs in between leaves its entry buffered.)  *)
(***************************************************************************)
\* the close has returned and no call is in progress
AllReturned(i) ==
    /\ inst[i].made /\ ~Attached(i)
    /\ \A t \in Threads : pc[t].op = "idle"

C36_NothingStranded ==
    AllReturned("A") =>
        /\ inst["A"]._buffer = <<>>
        /\ \A k \in 1..Len(logged) : k \in InFiles

(***************************************************************************)
(* C37: with log() called from several threads, the lines of the file are  *)
(* in the order of the timestamps of their entries.                        *)
(* (Violated: the timestamp is taken before the lock, so a thread can      *)
(* write an entry stamped earlier after one stamped later.)                *)
(***************************************************************************)
C37_TimestampOrder ==
    \A p \in AbsPaths : \A j \in 1..(Len(files[p]) - 1) :
        files[p][j].timestamp <= files[p][j + 1].timestamp

(***************************************************************************)
(* C38: a log() on an instance changes no file other than the one at the   *)
(* instance's own path, whatever instances were constructed before.        *)
(* (Violated: two instances with one logger_name and different paths       *)
(* attach both file sinks to the same logger, which writes to both.)       *)
(***************************************************************************)
C38_LogStep ==
    \A i \in Insts : LogStep(i) =>
        \A p \in AbsPaths \ {Path(i)} : files'[p] = files[p]

C38_OwnDestinationOnly == [][C38_LogStep]_vars

(***************************************************************************)
(* C39: with an empty buffer, query, count, sum_field and avg_field change *)
(* nothing: the files, the backups, the sinks, the thresholds and the      *)
(* instance are as before; export changes only what it exports to.  A read *)
(* operation called again with the same argument right after itself        *)
(* returns, or exports, the same.                                          *)
(***************************************************************************)
Reads == {"query", "count", "sum_field", "avg_field"}

C39_FrameStep ==
    \A i \in Insts : (inst[i].made /\ inst[i]._buffer = <<>> /\ last'.i = i) =>
        /\ last'.op \in Reads =>
              (files' = files /\ disk' = disk /\ loggers' = loggers
                  /\ inst' = inst /\ stderr' = stderr /\ last'.exc = "none")
        /\ last'.op = "export" =>
              (files' = files /\ disk' = [disk EXCEPT !.exported = disk'.exported]
                  /\ loggers' = loggers /\ inst' = inst /\ stderr' = stderr)

C39_RepeatStep ==
    (last'.op = last.op /\ last'.i = last.i /\ last'.arg = last.arg
        /\ last.exc = "none" /\ last'.exc = "none") =>
        /\ last'.op \in Reads => last'.ret = last.ret
        /\ last'.op = "export" => disk'.exported = disk.exported

C39_ReadOnly == [][C39_FrameStep /\ C39_RepeatStep]_vars

\* sum_field on an unbuffered instance whose file has been rotated
C39_Witness ==
    /\ last.op = "sum_field" /\ last.i = "A" /\ last.exc = "none"
    /\ inst["A"].buffer_size = 0
    /\ Backups(Path("A"))[1].exists
    /\ files[Path("A")] # <<>>
    /\ last.ret > 0
====
